---- MODULE Spec2Model ----
(***************************************************************************)
(* Model of the AISearch browser extension: the background service worker  *)
(* (src/extension/background.js: feedback store, blacklist view, trainer   *)
(* trigger, semantic request relay) and the content script                 *)
(* (src/extension/content.js: fingerprinting, result cache, filter chain,  *)
(* tiered reorder).                                                        *)
(*                                                                         *)
(* Scores are kept in thousandths (0.25 is 250).  Strings are TLA+ strings *)
(* and are taken apart character by character with SubSeq, so lower-casing,*)
(* title normalisation and tokenising are computed as the code does.       *)
(***************************************************************************)
EXTENDS Integers, Sequences, FiniteSets, TLC

VARIABLES
    \* ---- chrome.storage.local and the background worker -------------------
    search_feedback,   \* the stored feedback log (key "search_feedback")
    logCalls,          \* logSearchFeedback invocations in flight, each with its position
    logStarted,        \* how many log-feedback messages have been handled
    trainPending,      \* trainNegativeClassifier invocations awaiting storage.get
    trainRuns,         \* how many trainNegativeClassifier invocations have read the log
    trainRead,         \* the log the latest trainNegativeClassifier read
    trainBody,         \* what the latest trainNegativeClassifier sent to POST /feedback
    trainSent,         \* how many POST /feedback requests were sent
    lastChange,        \* the latest storage.onChanged event seen by the background
    appended,          \* history: every entry written by an append, in write order
    clears,            \* history: how many times the popup cleared the log
    now,               \* Date.now(), relative to the start of the run
    \* ---- chrome.storage.sync, the page, and the messages in flight ---------
    syncSettings,      \* the settings as stored (STORAGE_DEFAULTS when never saved)
    scoring,           \* the scorer behind backendUrl: what it makes of each title
    pageQuery,         \* getQuery(): the search query of the page's URL
    container,         \* the result nodes of the page, in document order
    mutationPending,   \* the MutationObserver has a callback queued
    toBackground,      \* semantic-score messages not yet handled by the background
    toTab,             \* requests the background took up and has not answered to the tab
    \* ---- the content script (content.js:107-118) --------------------------
    initPc,            \* where init() stands: "off", "loadSettings", "loadBlacklist", "ready"
    settingsReady,
    config,
    imageThresholds,
    lastQueryTokens,
    lastPayloadHash,
    lastOrderSignature,
    wrongBlacklist,
    resultCache,
    loadBlacklistPending,  \* a loadBlacklist() call awaits its get-blacklist answer
    \* ---- counter that bounds a run ----------------------------------------
    userActions,       \* what the user did so far: searches, saves, clicks
    \* ---- history ----------------------------------------------------------
    judged,            \* the "wrong" clicks: page query, title, and how far they got
    lastRequest,       \* the latest payload requestAnalysis built
    lastLookup,        \* the latest cache lookup of requestAnalysis and its outcome
    lastApplied,       \* the latest semantic-results message applied to the page
    lastHandled,       \* the latest semantic-score message the background handled
    stored,            \* per fingerprint, the latest result received and when
    \* ---- the Tag Collector ------------------------------------------------
    collection_feedback, \* chrome.storage.local: positive, negative, blocklist
    isCollecting,      \* the popup has a collection run going
    collectedVideos,   \* the videos the popup displays
    toContent,         \* start-collection messages not yet taken by the content script
    toPopup,           \* collection-complete messages not yet taken by the popup
    collectionState,   \* the content script's collectionState (content.js:896-907)
    collections,       \* how many collection runs the user started
    thumbs,            \* how many thumbs buttons the user clicked
    thumbedDown,       \* history: the videos whose latest judgment is a thumbs-down
    collectionRun,     \* history: the blocklist and the thumbs-downs at the run's start
    scroll,            \* the scroll timers of the collection runs, their requests, the page
    \* ---- one item taken through the settings, the filters and the tiers ----
    evaluated          \* the item, the stored settings, and what was computed so far

storeVars == <<search_feedback, logCalls, logStarted, trainPending, trainRuns, trainRead,
               trainBody, trainSent, lastChange, appended, clears>>

pageVars == <<syncSettings, scoring, pageQuery, container, mutationPending, toBackground,
              toTab>>

scriptVars == <<initPc, settingsReady, config, imageThresholds, lastQueryTokens,
                lastPayloadHash, lastOrderSignature, wrongBlacklist, resultCache>>

boundVars == <<userActions>>

historyVars == <<lastRequest, lastLookup, lastApplied, lastHandled, stored>>

\* everything of the tab except what a change of the stored log touches
tabVars == <<pageVars, scriptVars, boundVars, historyVars>>

contentVars == <<tabVars, loadBlacklistPending, judged>>

collectorVars == <<collection_feedback, isCollecting, collectedVideos, toContent, toPopup,
                   collectionState, collections, thumbs, thumbedDown, collectionRun, scroll>>

vars == <<storeVars, now, contentVars, collectorVars, evaluated>>

-----------------------------------------------------------------------------
(* Bounds of the model *)

\* how many log-feedback messages are handled in one run
MaxFeedback == 3
\* how many times the popup clears the log in one run
MaxClears == 1
\* the clock stops advancing here
MaxNow == 300000
\* how many times in one run the user searches or reloads results, saves
\* settings, or clicks a feedback button
MaxUserActions == 2

\* how many collection runs the user starts, and how many thumbs buttons the
\* user clicks, in one run
MaxCollections == 2
MaxThumbs == 2
\* how many collection-complete messages the popup takes for one run of the
\* content script
MaxCompletions == 2
\* how many start-collection messages the content script takes in one run,
\* and how many ticks a scroll timer makes where runs overlap
MaxStarts == 2
MaxTicks == 3

\* how many storage changes reach a tab whose storage holds arbitrary values
MaxChanges == 2

\* The clock advances in steps of half the cache expiry, so that a cached
\* result is seen at the ages 0, 150000 and 300000 (the expiry itself).
TickSteps == {150000}

-----------------------------------------------------------------------------
(* Strings *)

LowerChars == "abcdefghijklmnopqrstuvwxyz"
UpperChars == "ABCDEFGHIJKLMNOPQRSTUVWXYZ"
DigitChars == "0123456789"

CharAt(s, i) == SubSeq(s, i, i)

\* the characters of a string, as a set
CharsOf(chars) == {CharAt(chars, i) : i \in 1..Len(chars)}

\* upper-case letter -> lower-case letter
LowerOf == [c \in CharsOf(UpperChars) |->
               CharAt(LowerChars, CHOOSE i \in 1..Len(UpperChars) : CharAt(UpperChars, i) = c)]

\* String.prototype.toLowerCase on one character (ASCII)
LowerChar(c) == IF c \in DOMAIN LowerOf THEN LowerOf[c] ELSE c

\* String.prototype.toLowerCase (ASCII)
toLowerCase[s \in STRING] ==
    IF s = "" THEN ""
    ELSE LowerChar(CharAt(s, 1)) \o toLowerCase[SubSeq(s, 2, Len(s))]

\* the character class [a-z0-9]
AlnumChars == CharsOf(LowerChars) \cup CharsOf(DigitChars)
IsAlnum(c) == c \in AlnumChars

\* String.prototype.trim, for the single spaces normalizeTitle leaves
trim[s \in STRING] ==
    IF s = "" THEN ""
    ELSE IF CharAt(s, 1) = " " THEN trim[SubSeq(s, 2, Len(s))]
    ELSE IF CharAt(s, Len(s)) = " " THEN trim[SubSeq(s, 1, Len(s) - 1)]
    ELSE s

\* s.replace(/[^a-z0-9]+/gu, " "): every run of other characters becomes one space
ReplaceNonAlnumRuns[s \in STRING, inRun \in BOOLEAN] ==
    IF s = "" THEN ""
    ELSE IF IsAlnum(CharAt(s, 1))
    THEN CharAt(s, 1) \o ReplaceNonAlnumRuns[SubSeq(s, 2, Len(s)), FALSE]
    ELSE IF inRun THEN ReplaceNonAlnumRuns[SubSeq(s, 2, Len(s)), TRUE]
    ELSE " " \o ReplaceNonAlnumRuns[SubSeq(s, 2, Len(s)), TRUE]

normalizeTitle(title) == trim[ReplaceNonAlnumRuns[toLowerCase[title], FALSE]]

\* s.split(/[^a-z0-9]+/): the pieces between runs of other characters
\* (an empty piece at either end when the string starts or ends with a run)
SplitNonAlnum[s \in STRING, cur \in STRING, inRun \in BOOLEAN] ==
    IF s = "" THEN <<cur>>
    ELSE IF IsAlnum(CharAt(s, 1))
    THEN SplitNonAlnum[SubSeq(s, 2, Len(s)), cur \o CharAt(s, 1), FALSE]
    ELSE IF inRun THEN SplitNonAlnum[SubSeq(s, 2, Len(s)), cur, TRUE]
    ELSE <<cur>> \o SplitNonAlnum[SubSeq(s, 2, Len(s)), "", TRUE]

\* content.js:748-756
tokenize(text) ==
    IF text = "" THEN <<>>
    ELSE SelectSeq(SplitNonAlnum[toLowerCase[text], "", FALSE],
                   LAMBDA token : Len(token) > 2)

\* Array.prototype.join(" ")
JoinSpace[tokens \in Seq(STRING)] ==
    IF Len(tokens) = 0 THEN ""
    ELSE IF Len(tokens) = 1 THEN tokens[1]
    ELSE tokens[1] \o " " \o JoinSpace[Tail(tokens)]

\* String.prototype.includes
includes[s \in STRING, t \in STRING] ==
    \E i \in 1..(Len(s) - Len(t) + 1) : SubSeq(s, i, i + Len(t) - 1) = t

\* the element of a one-element set: Only({e(x) : x \in {v}}) is e(v), with v
\* worked out once
Only(S) == CHOOSE x \in S : TRUE

Range(f) == {f[i] : i \in DOMAIN f}

Min(a, b) == IF a <= b THEN a ELSE b

\* Array.prototype.slice(-n)
SliceLast(s, n) == IF Len(s) <= n THEN s ELSE SubSeq(s, Len(s) - n + 1, Len(s))

-----------------------------------------------------------------------------
(* Pure parts of the content script (content.js) *)

\* content.js:4-14  DEFAULT_CONFIG (scores in thousandths)
DEFAULT_CONFIG ==
    [maxItems |-> 30, minScore |-> 250, enableReorder |-> TRUE, showBadges |-> TRUE,
     imageMode |-> "balanced", enableMusicFilter |-> TRUE, enableBrandFilter |-> TRUE,
     enableIntentBoost |-> TRUE, enableTemporalBoost |-> TRUE]

\* content.js:118  5 * 60 * 1000
CACHE_EXPIRY_MS == 300000

\* content.js:28-38  NEGATIVE_KEYWORDS (declared; no function reads it)
NEGATIVE_KEYWORDS ==
    { "lyrics", "official video", "music video", "audio", "song", "remix", "cover", "vevo",
      "karaoke" }

\* content.js:39-70
APPLE_BRAND_KEYWORDS ==
    { "iphone", "ipad", "ipod", "macbook", "macbook pro", "macbook air", "mac mini",
      "mac studio", "mac pro", "imac", "apple watch", "watch", "airpods", "vision pro",
      "apple event", "wwdc", "apple silicon", "m1", "m2", "m3", "a17", "a18", "ios",
      "macos", "unboxing", "review", "stock", "aapl", "earnings", "preorder" }

\* content.js:71-105
APPLE_FRUIT_KEYWORDS ==
    { "fruit", "orchard", "tree", "picking", "harvest", "recipe", "cooking", "baking",
      "pie", "juice", "cider", "farmer", "garden", "organic", "crisp", "sweet",
      "nutrition", "vitamin", "farm", "grow", "seed", "core", "peel", "slice", "snack",
      "fuji", "granny smith", "gala", "honeycrisp", "fruit salad", "caramel apple",
      "apple fruit", "orchard care" }

\* content.js:881-883
normalizeImageMode(value) ==
    IF value \in {"balanced", "boosted", "strict"} THEN value ELSE DEFAULT_CONFIG.imageMode

\* the thresholds as they would be with a balanced top threshold of 0.75
computeImageThresholdsHighTop(mode) ==
    CASE normalizeImageMode(mode) = "strict" -> [min |-> 350, strong |-> 550, top |-> 750]
      [] normalizeImageMode(mode) = "boosted" -> [min |-> 180, strong |-> 400, top |-> 600]
      [] OTHER -> [min |-> 200, strong |-> 450, top |-> 750]

\* content.js:870-879
computeImageThresholds(mode) ==
    CASE normalizeImageMode(mode) = "strict" -> [min |-> 350, strong |-> 550, top |-> 750]
      [] normalizeImageMode(mode) = "boosted" -> [min |-> 180, strong |-> 400, top |-> 600]
      [] OTHER -> [min |-> 200, strong |-> 450, top |-> 650]

\* text.split(/\s+/u) for text whose only white space is the space character
SplitSpaces[s \in STRING, cur \in STRING, inRun \in BOOLEAN] ==
    IF s = "" THEN <<cur>>
    ELSE IF CharAt(s, 1) # " "
    THEN SplitSpaces[SubSeq(s, 2, Len(s)), cur \o CharAt(s, 1), FALSE]
    ELSE IF inRun THEN SplitSpaces[SubSeq(s, 2, Len(s)), cur, TRUE]
    ELSE <<cur>> \o SplitSpaces[SubSeq(s, 2, Len(s)), "", TRUE]

\* tag.replace(/^#+/u, "")
StripHashes[tag \in STRING] ==
    IF tag # "" /\ CharAt(tag, 1) = "#" THEN StripHashes[SubSeq(tag, 2, Len(tag))]
    ELSE tag

\* content.js:713-720
extractHashtags(text) ==
    IF text = "" THEN <<>>
    ELSE LET tagged == SelectSeq(SplitSpaces[text, "", FALSE],
                                 LAMBDA token : token # "" /\ CharAt(token, 1) = "#")
             stripped == [i \in 1..Len(tagged) |-> toLowerCase[StripHashes[tagged[i]]]]
         IN  SelectSeq(stripped, LAMBDA tag : tag # "")

\* content.js:726-731  blacklist: a function from query keys to sets of titles
isBlacklisted(blacklist, queryKey, title) ==
    IF queryKey = "" \/ title = "" THEN FALSE
    ELSE IF queryKey \notin DOMAIN blacklist THEN FALSE
    ELSE IF blacklist[queryKey] = {} THEN FALSE
    ELSE normalizeTitle(title) \in blacklist[queryKey]

\* A scored entry of a scorer response: id, score, optional image_score, and
\* the title and description the content script reads back from it.
\* content.js:674  typeof entry.image_score === "number" ? entry.image_score : null
HasImageScore(entry) == entry.hasImage

\* the filter chain as it would be with the image floor applied whatever the score
passesFiltersImageFloorAlways(entry, cfg, thresholds, tokens, blacklist) ==
    IF entry.score < cfg.minScore THEN FALSE
    ELSE IF HasImageScore(entry) /\ entry.image_score < thresholds.min
    THEN FALSE
    ELSE IF Len(tokens) = 0 THEN TRUE
    ELSE \E title \in {toLowerCase[entry.title]} :
         \E description \in {toLowerCase[entry.description]} :
         \E hashtags \in {JoinSpace[extractHashtags(title \o " " \o description)]} :
         \E combined \in {title \o " " \o description \o " " \o hashtags} :
            LET hasFruit == \E kw \in APPLE_FRUIT_KEYWORDS : includes[combined, kw]
                hasBrand == \E kw \in APPLE_BRAND_KEYWORDS : includes[combined, kw]
                tokenPresent == \E i \in 1..Len(tokens) : includes[combined, tokens[i]]
            IN  IF cfg.enableBrandFilter /\ "apple" \in Range(tokens) /\ hasBrand /\ ~hasFruit
                THEN FALSE
                ELSE IF ~tokenPresent
                THEN HasImageScore(entry) /\ entry.image_score >= thresholds.strong
                ELSE ~isBlacklisted(blacklist, entry.title, JoinSpace[tokens])

\* the filter chain as it would be with a top image score needed where no
\* query token is found
passesFiltersTokenNeedsTop(entry, cfg, thresholds, tokens, blacklist) ==
    IF entry.score < cfg.minScore THEN FALSE
    ELSE IF HasImageScore(entry) /\ entry.image_score < thresholds.min /\ entry.score < 350
    THEN FALSE
    ELSE IF Len(tokens) = 0 THEN TRUE
    ELSE \E title \in {toLowerCase[entry.title]} :
         \E description \in {toLowerCase[entry.description]} :
         \E hashtags \in {JoinSpace[extractHashtags(title \o " " \o description)]} :
         \E combined \in {title \o " " \o description \o " " \o hashtags} :
            LET hasFruit == \E kw \in APPLE_FRUIT_KEYWORDS : includes[combined, kw]
                hasBrand == \E kw \in APPLE_BRAND_KEYWORDS : includes[combined, kw]
                tokenPresent == \E i \in 1..Len(tokens) : includes[combined, tokens[i]]
            IN  IF cfg.enableBrandFilter /\ "apple" \in Range(tokens) /\ hasBrand /\ ~hasFruit
                THEN FALSE
                ELSE IF ~tokenPresent
                THEN HasImageScore(entry) /\ entry.image_score >= thresholds.top
                ELSE ~isBlacklisted(blacklist, entry.title, JoinSpace[tokens])

\* the filter chain as it would be without the brand/fruit stage
passesFiltersNoBrandStage(entry, cfg, thresholds, tokens, blacklist) ==
    IF entry.score < cfg.minScore THEN FALSE
    ELSE IF HasImageScore(entry) /\ entry.image_score < thresholds.min /\ entry.score < 350
    THEN FALSE
    ELSE IF Len(tokens) = 0 THEN TRUE
    ELSE \E title \in {toLowerCase[entry.title]} :
         \E description \in {toLowerCase[entry.description]} :
         \E hashtags \in {JoinSpace[extractHashtags(title \o " " \o description)]} :
         \E combined \in {title \o " " \o description \o " " \o hashtags} :
            IF ~(\E i \in 1..Len(tokens) : includes[combined, tokens[i]])
            THEN HasImageScore(entry) /\ entry.image_score >= thresholds.strong
            ELSE ~isBlacklisted(blacklist, entry.title, JoinSpace[tokens])

\* content.js:669-711  (cfg, thresholds, tokens, blacklist are the module-level
\* config, imageThresholds, lastQueryTokens and wrongBlacklist at the call)
passesFilters(entry, cfg, thresholds, tokens, blacklist) ==
    IF entry.score < cfg.minScore THEN FALSE
    ELSE IF HasImageScore(entry) /\ entry.image_score < thresholds.min /\ entry.score < 350
    THEN FALSE
    ELSE IF Len(tokens) = 0 THEN TRUE
    ELSE \E title \in {toLowerCase[entry.title]} :
         \E description \in {toLowerCase[entry.description]} :
         \E hashtags \in {JoinSpace[extractHashtags(title \o " " \o description)]} :
         \E combined \in {title \o " " \o description \o " " \o hashtags} :
            LET hasFruit == \E kw \in APPLE_FRUIT_KEYWORDS : includes[combined, kw]
                hasBrand == \E kw \in APPLE_BRAND_KEYWORDS : includes[combined, kw]
                tokenPresent == \E i \in 1..Len(tokens) : includes[combined, tokens[i]]
            IN  IF cfg.enableBrandFilter /\ "apple" \in Range(tokens) /\ hasBrand /\ ~hasFruit
                THEN FALSE
                ELSE IF ~tokenPresent
                THEN HasImageScore(entry) /\ entry.image_score >= thresholds.strong
                \* content.js:706  the arguments are passed as (title, query)
                ELSE ~isBlacklisted(blacklist, entry.title, JoinSpace[tokens])

\* the tiers as they would be with the lowest bucket reaching up to 0.2
tierForWideLowBucket(item, thresholds) ==
    IF ~item.hasEntry THEN 0
    ELSE IF ~item.passes THEN 1
    ELSE IF HasImageScore(item.entry) /\ item.entry.image_score >= thresholds.top THEN 7
    ELSE IF HasImageScore(item.entry) /\ item.entry.image_score >= thresholds.strong THEN 6
    ELSE IF item.score >= 800 THEN 5
    ELSE IF item.score >= 500 THEN 4
    ELSE IF item.score >= 200 THEN 3
    ELSE 1

\* the tiers as they would be without the image override of the score buckets
tierForScoreOnly(item, thresholds) ==
    IF ~item.hasEntry THEN 0
    ELSE IF ~item.passes THEN 1
    ELSE IF item.score >= 800 THEN 5
    ELSE IF item.score >= 500 THEN 4
    ELSE IF item.score >= 200 THEN 3
    ELSE IF item.score >= 10 THEN 2
    ELSE 1

\* content.js:809-841  item: [hasEntry, entry, passes, score, index]
tierFor(item, thresholds) ==
    IF ~item.hasEntry THEN 0
    ELSE IF ~item.passes THEN 1
    ELSE IF HasImageScore(item.entry) /\ item.entry.image_score >= thresholds.top THEN 7
    ELSE IF HasImageScore(item.entry) /\ item.entry.image_score >= thresholds.strong THEN 6
    ELSE IF item.score >= 800 THEN 5
    ELSE IF item.score >= 500 THEN 4
    ELSE IF item.score >= 200 THEN 3
    ELSE IF item.score >= 10 THEN 2
    ELSE 1

\* the comparator as it would be with the index tie-break reversed
SortsBeforeLatestFirst(a, b, thresholds) ==
    LET ta == tierFor(a, thresholds)
        tb == tierFor(b, thresholds)
    IN  IF ta # tb THEN ta > tb
        ELSE IF a.score # b.score THEN a.score > b.score
        ELSE a.index > b.index

\* content.js:772-782  the comparator: a comes before b
SortsBefore(a, b, thresholds) ==
    LET ta == tierFor(a, thresholds)
        tb == tierFor(b, thresholds)
    IN  IF ta # tb THEN ta > tb
        ELSE IF a.score # b.score THEN a.score > b.score
        ELSE a.index < b.index

\* the sort as it would be with a comparator that puts the later of two
\* items equal in tier and score first
SortItemsLatestFirst(items, thresholds) ==
    LET place(i) == 1 + Cardinality({j \in 1..Len(items) :
                          j # i /\ SortsBeforeLatestFirst(items[j], items[i], thresholds)})
    IN  [k \in 1..Len(items) |-> items[CHOOSE i \in 1..Len(items) : place(i) = k]]

\* content.js:772  [...items].sort(comparator): each item goes to the place
\* given by how many items come before it
SortItems(items, thresholds) ==
    LET place(i) == 1 + Cardinality({j \in 1..Len(items) :
                                        j # i /\ SortsBefore(items[j], items[i], thresholds)})
    IN  [k \in 1..Len(items) |-> items[CHOOSE i \in 1..Len(items) : place(i) = k]]

-----------------------------------------------------------------------------
(* The page and the ranking of the content script (content.js) *)

\* A result node of the page: its data-ai-semantic-id attribute (<<>> when not
\* set, else "result-<Date.now()>-<index>"), its texts, and what the script
\* put on it.
NoId == ""
NoButtons == [has |-> FALSE, resultId |-> NoId, title |-> ""]

FreshNode(title) ==
    [id |-> NoId, title |-> title, description |-> "", highlighted |-> FALSE,
     badge |-> FALSE, buttons |-> NoButtons]

\* content.js:600-605  getOrAssignId on the first n nodes (index is 0-based)
ResultId(t, index) == "result-" \o ToString(t) \o "-" \o ToString(index)

AssignIds(nodes, n, t) ==
    [i \in 1..Len(nodes) |->
        IF i <= n /\ nodes[i].id = NoId THEN [nodes[i] EXCEPT !.id = ResultId(t, i - 1)]
        ELSE nodes[i]]

\* collectEntries as it would be without its check of the query and the nodes
collectEntriesUnguarded(nodes, query, cfg, blacklist, t) ==
    LET n == Min(Len(nodes), cfg.maxItems)
        withIds == AssignIds(nodes, n, t)
        items == [i \in 1..n |->
                     [id |-> withIds[i].id, title |-> withIds[i].title,
                      description |-> withIds[i].description]]
    IN  [ok |-> TRUE, nodes |-> withIds, payload |-> [query |-> query, items |-> items]]

\* content.js:297-333  collectEntries: [ok, nodes (with ids assigned), payload]
collectEntries(nodes, query, cfg, blacklist, t) ==
    LET n == Min(Len(nodes), cfg.maxItems)
    IN  IF query = "" \/ n = 0
        THEN [ok |-> FALSE, nodes |-> nodes, payload |-> [query |-> "", items |-> <<>>]]
        ELSE LET withIds == AssignIds(nodes, n, t)
                 queryKey == toLowerCase[query]
                 items == [i \in 1..n |->
                              [id |-> withIds[i].id, title |-> withIds[i].title,
                               description |-> withIds[i].description]]
                 kept == SelectSeq(items, LAMBDA item :
                              /\ item.title \o item.description # ""
                              /\ ~isBlacklisted(blacklist, queryKey, item.title))
             IN  [ok |-> Len(kept) > 0, nodes |-> withIds,
                  payload |-> [query |-> query, items |-> kept]]

\* content.js:346  JSON.stringify({ query, ids })
HashOf(payload) ==
    [query |-> payload.query, ids |-> [i \in 1..Len(payload.items) |-> payload.items[i].id]]

\* lastPayloadHash = ""
NoHash == [query |-> "", ids |-> <<>>]

\* content.js:584-594  resetNode
resetNode(node) == [node EXCEPT !.highlighted = FALSE, !.badge = FALSE]

\* content.js:405-456  highlightNode (with addFeedbackButtons, 458-518: the
\* buttons are created once and keep the entry they were created with)
highlightNode(node, entry, cfg) ==
    IF entry.score < cfg.minScore THEN resetNode(node)
    ELSE IF ~cfg.showBadges THEN [node EXCEPT !.highlighted = TRUE, !.badge = FALSE]
    ELSE [node EXCEPT !.highlighted = TRUE, !.badge = TRUE,
                      !.buttons = IF node.buttons.has THEN node.buttons
                                  ELSE [has |-> TRUE, resultId |-> entry.id,
                                        title |-> entry.title]]

\* does the step from node to its new state add or remove child elements
\* (what the MutationObserver of content.js:246-251 reports)
ChildListChanged(old, new) == old.badge \/ new.badge

\* content.js:596-598
clearHighlights(nodes) ==
    [i \in 1..Len(nodes) |-> IF nodes[i].highlighted THEN resetNode(nodes[i]) ELSE nodes[i]]

\* content.js:376  new Map(ranked.map(item => [item.id, item])): the last entry
\* with the id wins
HasEntryFor(ranked, id) == \E k \in 1..Len(ranked) : ranked[k].id = id
EntryFor(ranked, id) ==
    ranked[CHOOSE k \in 1..Len(ranked) :
              /\ ranked[k].id = id
              /\ \A m \in (k + 1)..Len(ranked) : ranked[m].id # id]

NoEntry == [id |-> NoId, score |-> 0, hasImage |-> FALSE, image_score |-> 0,
            title |-> "", description |-> ""]

\* content.js:377-397  one decorated item per node that carries the attribute
\* (pos is the node's place among the container's children)
Decorate(nodes, ranked, cfg, thresholds, tokens, blacklist) ==
    LET withAttr == SelectSeq([k \in 1..Len(nodes) |-> k], LAMBDA k : nodes[k].id # NoId)
    IN  [i \in 1..Len(withAttr) |->
            LET node == nodes[withAttr[i]]
                has == HasEntryFor(ranked, node.id)
                entry == IF has THEN EntryFor(ranked, node.id) ELSE NoEntry
                passes == has /\ passesFilters(entry, cfg, thresholds, tokens, blacklist)
            IN  [pos |-> withAttr[i],
                 node |-> IF has /\ passes THEN highlightNode(node, entry, cfg)
                          ELSE resetNode(node),
                 hasEntry |-> has, entry |-> entry, passes |-> passes,
                 score |-> IF has THEN entry.score ELSE -1,
                 index |-> i - 1]]

\* container.insertBefore(node, target) on the sequence of children (each
\* child is named by the place it had before the reorder)
RemoveChild(children, c) == SelectSeq(children, LAMBDA x : x # c)
InsertBefore(children, c, target) ==
    LET without == RemoveChild(children, c)
        at == CHOOSE k \in 1..Len(without) : without[k] = target
    IN  SubSeq(without, 1, at - 1) \o <<c>> \o SubSeq(without, at, Len(without))

\* content.js:799-806  the forEach that moves each sorted node to its index
MoveToSorted[children \in Seq(Nat), sorted \in Seq(Nat), k \in Nat] ==
    IF k > Len(sorted) THEN children
    ELSE IF children[k] = sorted[k] THEN MoveToSorted[children, sorted, k + 1]
    ELSE MoveToSorted[InsertBefore(children, sorted[k], children[k]), sorted, k + 1]

\* content.js:758-807  reorderNodes over the container's nodes (already
\* highlighted or reset): [nodes, signature, moved]
reorderNodes(items, nodes, cfg, thresholds, signature) ==
    IF ~cfg.enableReorder \/ Len(items) = 0
    THEN [nodes |-> nodes, signature |-> signature, moved |-> FALSE]
    ELSE Only({
           LET newSignature == [k \in 1..Len(sorted) |-> sorted[k].node.id]
               order == MoveToSorted[[k \in 1..Len(nodes) |-> k],
                                     [k \in 1..Len(sorted) |-> sorted[k].pos], 1]
           IN  IF newSignature = signature
               THEN [nodes |-> nodes, signature |-> signature, moved |-> FALSE]
               ELSE [nodes |-> [k \in 1..Len(nodes) |-> nodes[order[k]]],
                     signature |-> newSignature,
                     moved |-> order # [k \in 1..Len(nodes) |-> k]]
           : sorted \in {SortItems(items, thresholds)} })

\* content.js:370-403  applySemanticRanking: [nodes, signature, mutated],
\* mutated when child elements were added, removed or moved
applySemanticRanking(data, nodes, cfg, thresholds, tokens, blacklist, signature) ==
    IF Len(data.ranked) = 0
    THEN [nodes |-> clearHighlights(nodes), signature |-> signature,
          mutated |-> \E k \in 1..Len(nodes) : nodes[k].highlighted /\ nodes[k].badge]
    ELSE Only({
           Only({
             Only({
               [nodes |-> reordered.nodes, signature |-> reordered.signature,
                mutated |-> \/ reordered.moved
                            \/ \E k \in 1..Len(nodes) :
                                  /\ nodes[k].id # NoId
                                  /\ ChildListChanged(nodes[k], updated[k])]
               : reordered \in {reorderNodes(decorated, updated, cfg, thresholds,
                                             signature)} })
             : updated \in {[k \in 1..Len(nodes) |->
                              IF \E i \in 1..Len(decorated) : decorated[i].pos = k
                              THEN decorated[CHOOSE i \in 1..Len(decorated) :
                                                decorated[i].pos = k].node
                              ELSE nodes[k]]} })
           : decorated \in {Decorate(nodes, data.ranked, cfg, thresholds, tokens,
                                     blacklist)} })

-----------------------------------------------------------------------------
(* The feedback store (background.js) *)

\* background.js:119  feedbackLog.slice(-500)
LOG_CAP == 500
\* background.js:256  newLog.length % 20 === 0
TRAIN_EVERY == 20
\* background.js:217 and 231
TRAIN_MIN == 10

\* what a log-feedback message may carry (background.js:101); the last one
\* has no query and is dropped by the handler
FeedbackPayloads ==
    { [query |-> "cat", resultId |-> "r1", title |-> "Cat Video", feedback |-> "wrong"],
      [query |-> "cat", resultId |-> "r2", title |-> "Dog Tricks", feedback |-> "helpful"],
      [query |-> "cat", resultId |-> "r3", title |-> "Bird", feedback |-> "clicked"],
      [query |-> "", resultId |-> "r1", title |-> "Cat Video", feedback |-> "wrong"] }

\* A log left in storage by earlier sessions: n entries, the first c of them
\* "clicked", the others alternately "helpful" and "wrong".
StoredLog(n, c) ==
    [i \in 1..n |->
        [query |-> "cat", resultId |-> "r0", title |-> "Old Result",
         feedback |-> IF i <= c THEN "clicked"
                      ELSE IF i % 2 = 0 THEN "helpful" ELSE "wrong",
         timestamp |-> 0]]

\* the logs a run may start from: <<length, clicked>>
StoredLogShapes ==
    { <<0, 0>>, <<18, 0>>, <<19, 1>>, <<19, 12>>, <<21, 2>> }

\* the same with a log one entry short of the cap
StoredLogShapesCap ==
    { <<0, 0>>, <<19, 1>>, <<499, 0>> }

\* the blacklist as it would be if every judgment counted
getWrongBlacklistAnyJudgment(feedbackLog) ==
    LET listed == {i \in 1..Len(feedbackLog) :
                      feedbackLog[i].title # "" /\ feedbackLog[i].query # ""}
        keys == {toLowerCase[feedbackLog[i].query] : i \in listed}
    IN  [q \in keys |->
            {normalizeTitle(feedbackLog[i].title) :
                i \in {j \in listed : toLowerCase[feedbackLog[j].query] = q}}]

\* background.js:156-175  getWrongBlacklist: query key -> set of normalized titles
getWrongBlacklist(feedbackLog) ==
    LET wrong == {i \in 1..Len(feedbackLog) :
                     /\ feedbackLog[i].feedback = "wrong"
                     /\ feedbackLog[i].title # ""
                     /\ feedbackLog[i].query # ""}
        keys == {toLowerCase[feedbackLog[i].query] : i \in wrong}
    IN  [q \in keys |->
            {normalizeTitle(feedbackLog[i].title) :
                i \in {j \in wrong : toLowerCase[feedbackLog[j].query] = q}}]

\* the entries that count for training (background.js:224)
Qualifying(feedbackLog) ==
    {i \in 1..Len(feedbackLog) :
        feedbackLog[i].feedback = "helpful" \/ feedbackLog[i].feedback = "wrong"}

\* the latest run of trainNegativeClassifier sent nothing to the backend
NoRequest == [sent |-> FALSE, feedback_data |-> <<>>]

NoChange ==
    [kind |-> "none", oldLen |-> 0, newLen |-> 0, newQualifying |-> 0,
     lastQualifies |-> FALSE, trained |-> FALSE]

\* the listener as it would be if it counted only helpful/wrong entries
onChangedCountingQualifying(kind, oldLog, newLog) ==
    LET n == Cardinality(Qualifying(newLog))
        train == n > 0 /\ n % TRAIN_EVERY = 0
    IN  /\ lastChange' = [kind |-> kind, oldLen |-> Len(oldLog),
                          newLen |-> Len(newLog),
                          newQualifying |-> n,
                          lastQualifies |-> Len(newLog) \in Qualifying(newLog),
                          trained |-> train]
        /\ trainPending' = IF train THEN trainPending + 1 ELSE trainPending

\* background.js:253-260  chrome.storage.onChanged listener of the background
onChangedBackground(kind, oldLog, newLog) ==
    LET train == Len(newLog) > 0 /\ Len(newLog) % TRAIN_EVERY = 0
    IN  /\ lastChange' = [kind |-> kind, oldLen |-> Len(oldLog),
                          newLen |-> Len(newLog),
                          newQualifying |-> Cardinality(Qualifying(newLog)),
                          lastQualifies |-> Len(newLog) \in Qualifying(newLog),
                          trained |-> train]
        /\ trainPending' = IF train THEN trainPending + 1 ELSE trainPending

\* background.js:110-116  the entry a call pushes
FeedbackEntry(payload, ts) ==
    [query |-> payload.query, resultId |-> payload.resultId,
     title |-> payload.title, feedback |-> payload.feedback, timestamp |-> ts]

\* background.js:79-82, 100-107  a log-feedback message arrives: the handler
\* validates the payload and issues storage.local.get
logSearchFeedback(payload) ==
    /\ logStarted < MaxFeedback
    /\ logStarted' = logStarted + 1
    /\ IF payload.query = "" \/ payload.resultId = "" \/ payload.feedback = ""
       THEN UNCHANGED logCalls
       ELSE logCalls' = logCalls \cup
                {[id |-> logStarted + 1, payload |-> payload, pc |-> "get",
                  entry |-> FeedbackEntry(payload, 0), trimmed |-> <<>>]}
    /\ UNCHANGED <<search_feedback, trainPending, trainRuns, trainRead, trainBody,
                   trainSent, lastChange, appended, clears, now>>

\* content.js:198-218 (area "local")  what a change of the stored log does in
\* the tab: a listening content script calls loadBlacklist()
handleStorageChangesLocal ==
    /\ loadBlacklistPending' = (loadBlacklistPending \/ initPc = "ready")
    /\ UNCHANGED tabVars

\* the trim as it would be with slice(0, 500): the newest entries are dropped
PushAndTrimKeepingOldest(feedbackLog, entry) ==
    SubSeq(Append(feedbackLog, entry), 1, Min(Len(feedbackLog) + 1, LOG_CAP))

\* background.js:109-119  what the call computes once storage.get resolved
PushAndTrim(feedbackLog, entry) ==
    SliceLast(Append(feedbackLog, entry), LOG_CAP)

\* background.js:107-120  storage.get resolves with the log as stored now; the
\* call pushes its entry, trims, and issues storage.local.set
logSearchFeedback_get ==
    \E c \in logCalls :
        /\ c.pc = "get"
        /\ logCalls' = (logCalls \ {c}) \cup
              {[c EXCEPT !.pc = "set",
                         !.entry = FeedbackEntry(c.payload, now),
                         !.trimmed = PushAndTrim(search_feedback,
                                                 FeedbackEntry(c.payload, now))]}
        /\ UNCHANGED <<search_feedback, logStarted, trainPending, trainRuns, trainRead,
                       trainBody, trainSent, lastChange, appended, clears, now>>
        /\ UNCHANGED contentVars
    /\ UNCHANGED <<collectorVars, evaluated>>

\* background.js:120  storage.set is carried out: the stored log is replaced,
\* and storage.onChanged fires
logSearchFeedback_set ==
    \E c \in logCalls :
        /\ c.pc = "set"
        /\ logCalls' = logCalls \ {c}
        /\ search_feedback' = c.trimmed
        /\ appended' = Append(appended, c.entry)
        /\ onChangedBackground("append", search_feedback, c.trimmed)
        /\ handleStorageChangesLocal
        /\ judged' = {IF j.call = c.id THEN [j EXCEPT !.state = "logged"] ELSE j :
                         j \in judged}
        /\ UNCHANGED <<logStarted, trainRuns, trainRead, trainBody, trainSent,
                       clears, now>>
    /\ UNCHANGED <<collectorVars, evaluated>>

\* content.js:1335-1347  the popup's "clear feedback" button writes an empty log
clearFeedbackData ==
    /\ clears < MaxClears
    /\ clears' = clears + 1
    /\ search_feedback' = <<>>
    /\ appended' = <<>>
    /\ IF search_feedback # <<>>
       THEN /\ onChangedBackground("clear", search_feedback, <<>>)
            /\ handleStorageChangesLocal
       ELSE UNCHANGED <<lastChange, trainPending, tabVars, loadBlacklistPending>>
    /\ judged' = {j \in judged : j.state = "sent"}
    /\ UNCHANGED <<logCalls, logStarted, trainRuns, trainRead, trainBody, trainSent, now>>
    /\ UNCHANGED <<collectorVars, evaluated>>

\* the conversion as it would be without the filter: clicked entries go out as "down"
feedbackDataUnfiltered(feedbackLog) ==
    [i \in 1..Len(feedbackLog) |->
        [title |-> feedbackLog[i].title, description |-> "",
         feedback |-> IF feedbackLog[i].feedback = "helpful" THEN "up" ELSE "down"]]

\* background.js:223-229  .filter(helpful or wrong).map(to up/down)
feedbackDataOf(feedbackLog) ==
    LET kept == SelectSeq(feedbackLog,
                    LAMBDA entry : entry.feedback = "helpful" \/ entry.feedback = "wrong")
    IN  [i \in 1..Len(kept) |->
            [title |-> kept[i].title, description |-> "",
             feedback |-> IF kept[i].feedback = "helpful" THEN "up" ELSE "down"]]

\* background.js:212-250  trainNegativeClassifier once its storage.get resolved:
\* both length checks, then the POST to /feedback (its answer is only logged)
trainNegativeClassifier ==
    /\ trainPending > 0
    /\ trainPending' = trainPending - 1
    /\ trainRuns' = trainRuns + 1
    /\ trainRead' = search_feedback
    /\ LET feedbackData == feedbackDataOf(search_feedback)
       IN  IF Len(search_feedback) < TRAIN_MIN \/ Len(feedbackData) < TRAIN_MIN
           THEN /\ trainBody' = NoRequest
                /\ UNCHANGED trainSent
           ELSE /\ trainBody' = [sent |-> TRUE, feedback_data |-> feedbackData]
                /\ trainSent' = trainSent + 1
    /\ UNCHANGED <<search_feedback, logCalls, logStarted, lastChange, appended,
                   clears, now>>
    /\ UNCHANGED contentVars
    /\ UNCHANGED <<collectorVars, evaluated>>

-----------------------------------------------------------------------------
(* The tab: settings, page, scorer, and the content script's handlers *)

\* content.js:15-27  STORAGE_DEFAULTS, what storage.sync.get answers while
\* nothing was saved
STORAGE_DEFAULTS ==
    [saved |-> FALSE, enabled |-> TRUE, maxItems |-> DEFAULT_CONFIG.maxItems,
     minScore |-> 250, enableReorder |-> DEFAULT_CONFIG.enableReorder,
     showBadges |-> DEFAULT_CONFIG.showBadges, imageMode |-> DEFAULT_CONFIG.imageMode,
     enableMusicFilter |-> DEFAULT_CONFIG.enableMusicFilter,
     enableBrandFilter |-> DEFAULT_CONFIG.enableBrandFilter,
     enableIntentBoost |-> DEFAULT_CONFIG.enableIntentBoost,
     enableTemporalBoost |-> DEFAULT_CONFIG.enableTemporalBoost]

\* what the user may save from the popup (content.js:1214-1237 collectPayload;
\* the minimum score is a percentage from 0 to 100)
SettingsChoices ==
    { [STORAGE_DEFAULTS EXCEPT !.saved = TRUE],
      [STORAGE_DEFAULTS EXCEPT !.saved = TRUE, !.enabled = FALSE],
      [STORAGE_DEFAULTS EXCEPT !.saved = TRUE, !.minScore = 0] }

ConfigKeys ==
    {"maxItems", "minScore", "enableReorder", "showBadges", "imageMode",
     "enableMusicFilter", "enableBrandFilter", "enableIntentBoost", "enableTemporalBoost"}

\* content.js:202  the keys handleStorageChanges looks at
RelevantKeys == {"maxItems", "minScore", "enableReorder", "showBadges", "imageMode"}

\* content.js:885-890  clamp of a finite number
clamp(value, min, max) == IF value < min THEN min ELSE IF value > max THEN max ELSE value

\* content.js:220-236  applySettings(partial): partial holds the given keys of
\* the stored settings
applySettings(cfg, settings, keys) ==
    LET candidate == [k \in ConfigKeys |-> IF k \in keys THEN settings[k] ELSE cfg[k]]
    IN  [maxItems |-> clamp(candidate["maxItems"], 5, 50),
         minScore |-> clamp(candidate["minScore"], 0, 1000),
         enableReorder |-> candidate["enableReorder"],
         showBadges |-> candidate["showBadges"],
         imageMode |-> normalizeImageMode(candidate["imageMode"]),
         enableMusicFilter |-> candidate["enableMusicFilter"],
         enableBrandFilter |-> candidate["enableBrandFilter"],
         enableIntentBoost |-> candidate["enableIntentBoost"],
         enableTemporalBoost |-> candidate["enableTemporalBoost"]]

\* the searches the user makes and the results the page shows for them
PageQueries == {"cat", "AI cat"}
ResultTitles == <<"Cat Video", "Dog Tricks">>
FreshResults == [i \in 1..Len(ResultTitles) |-> FreshNode(ResultTitles[i])]

\* The scorer behind backendUrl is not part of the extension's source; its
\* answer is {ranked: [{id, score, text_score, image_score?}]}.  The content
\* script reads title and description from the ranked entries as well
\* (content.js:682, 526), so the answer is taken to carry the item's own.
\* What it makes of the titles: a textual match, and a strong visual match.
Scores ==
    [title \in Range(ResultTitles) |->
        IF title = "Cat Video" THEN [score |-> 600, hasImage |-> FALSE, image_score |-> 0]
        ELSE [score |-> 300, hasImage |-> TRUE, image_score |-> 700]]

\* a results page for the search "apple pie": a brand title, a fruit title,
\* and a title with a brand keyword ("review") and a fruit keyword ("pie")
OrderTitles == <<"Apple iPhone 16 Review", "Best Apple Pie Recipe", "Apple Pie Review">>
OrderResults == [i \in 1..Len(OrderTitles) |-> FreshNode(OrderTitles[i])]

\* What the scorer may make of those titles: mid and high scores, a score
\* under the lowest bucket (0.01), with no, a strong (>= 0.45) and a top
\* (>= 0.65) image score, and, since nothing in the extension constrains the
\* backend, scores outside [0, 1]
ScoreChoices ==
    [title \in Range(OrderTitles) |->
        CASE title = "Apple iPhone 16 Review" ->
                { [score |-> 500, hasImage |-> FALSE, image_score |-> 0],
                  [score |-> 900, hasImage |-> FALSE, image_score |-> 0] }
          [] title = "Best Apple Pie Recipe" ->
                { [score |-> 500, hasImage |-> FALSE, image_score |-> 0],
                  [score |-> 900, hasImage |-> FALSE, image_score |-> 0],
                  [score |-> 1200, hasImage |-> FALSE, image_score |-> 0],
                  [score |-> 5, hasImage |-> FALSE, image_score |-> 0] }
          [] OTHER ->
                { [score |-> 500, hasImage |-> FALSE, image_score |-> 0],
                  [score |-> 500, hasImage |-> TRUE, image_score |-> 500],
                  [score |-> 500, hasImage |-> TRUE, image_score |-> 700],
                  [score |-> 1500, hasImage |-> FALSE, image_score |-> 0],
                  [score |-> -100, hasImage |-> FALSE, image_score |-> 0] }]

\* the answer of a scorer that scores by title
Scorer(items) ==
    [ranked |-> [i \in 1..Len(items) |->
        [id |-> items[i].id, score |-> scoring[items[i].title].score,
         hasImage |-> scoring[items[i].title].hasImage,
         image_score |-> scoring[items[i].title].image_score,
         title |-> items[i].title, description |-> items[i].description]]]

NoData == [ranked |-> <<>>]

\* history: no semantic-score message was handled yet
NothingHandled ==
    [made |-> FALSE, message |-> [payload |-> [query |-> "", items |-> <<>>],
                                  hash |-> [query |-> "", ids |-> <<>>]],
     answered |-> FALSE]

\* the cache: a function from fingerprints to [data, timestamp]; the history
\* of received results (stored) has the same shape, with a mark on the results
\* received before the latest change of a relevant setting
EmptyCache == [h \in {} |-> [data |-> NoData, timestamp |-> 0]]

\* the put as it would be if it kept only the first ranked entry
CachePutTruncating(cache, hash, data, t) ==
    [h \in DOMAIN cache \cup {hash} |->
        IF h = hash
        THEN [data |-> [ranked |-> SubSeq(data.ranked, 1, Min(1, Len(data.ranked)))],
              timestamp |-> t]
        ELSE cache[h]]

\* content.js:274-277  resultCache.set(hash, { data, timestamp: Date.now() })
CachePut(cache, hash, data, t) ==
    [h \in DOMAIN cache \cup {hash} |->
        IF h = hash THEN [data |-> data, timestamp |-> t] ELSE cache[h]]

\* the test as it would be with <= in place of <
CacheFreshInclusive(cacheEntry, t) == t - cacheEntry.timestamp <= CACHE_EXPIRY_MS

\* content.js:355  Date.now() - cacheEntry.timestamp < CACHE_EXPIRY_MS
CacheFresh(cacheEntry, t) == t - cacheEntry.timestamp < CACHE_EXPIRY_MS

NoRequestYet == [made |-> FALSE, query |-> "", titles |-> {}]

NoLookup ==
    [made |-> FALSE, hash |-> NoHash, hadEntry |-> FALSE, age |-> 0,
     hadStored |-> FALSE, storedAge |-> 0, storedData |-> NoData,
     preChange |-> FALSE, blacklistCurrent |-> TRUE,
     served |-> FALSE, data |-> NoData, sent |-> FALSE]

\* the settings, tokens and blacklist an application of a ranking ran with
ContextOf(cfg, thresholds, tokens, blacklist) ==
    [cfg |-> cfg, thresholds |-> thresholds, tokens |-> tokens, blacklist |-> blacklist]

\* the ids of the result nodes that carry the attribute, in document order
ShownIds(nodes) ==
    SelectSeq([k \in 1..Len(nodes) |-> nodes[k].id], LAMBDA id : id # NoId)

\* content.js:377-397, 809-841  the items applySemanticRanking hands to
\* reorderNodes, in the order of the nodes before the reorder, each with the
\* tier tierFor gives it
AppliedItems(nodes, ranked, cfg, thresholds, tokens, blacklist) ==
    Only({ [i \in 1..Len(decorated) |->
               [id |-> decorated[i].node.id, hasEntry |-> decorated[i].hasEntry,
                passes |-> decorated[i].passes, score |-> decorated[i].score,
                index |-> decorated[i].index,
                tier |-> tierFor(decorated[i], thresholds),
                hasImage |-> decorated[i].entry.hasImage,
                image_score |-> decorated[i].entry.image_score,
                title |-> decorated[i].entry.title,
                description |-> decorated[i].entry.description]]
           : decorated \in {Decorate(nodes, ranked, cfg, thresholds, tokens, blacklist)} })

\* the latest message handled by handleRuntimeMessage: for semantic-results
\* what was applied, with what, and what the page showed afterwards; for
\* semantic-error whether highlights were left on the page.  A ranking that
\* requestAnalysis applies from the result cache is recorded alike, from "cache".
NothingApplied ==
    [from |-> "none", hash |-> NoHash, current |-> NoHash, changed |-> FALSE,
     highlights |-> FALSE, data |-> NoData,
     context |-> ContextOf(DEFAULT_CONFIG, computeImageThresholds(DEFAULT_CONFIG.imageMode),
                           <<>>, <<>>),
     items |-> <<>>, shown |-> <<>>, signature |-> <<>>, after |-> <<>>,
     repeat |-> FALSE, prevSignature |-> <<>>, prevShown |-> <<>>]

(* The Tag Collector: the popup's collection runs and its feedback          *)
(* (src/unnamed/part_002), and the content script's collector               *)
(* (content.js:892-1136)                                                    *)

IsUpperChar(c) == c \in CharsOf(UpperChars)
IsLowerChar(c) == c \in CharsOf(LowerChars)

\* title.split(/[|\-]/): the pieces between the characters | and -
SplitBarDash[s \in STRING, cur \in STRING] ==
    IF s = "" THEN <<cur>>
    ELSE IF CharAt(s, 1) \in {"|", "-"}
    THEN <<cur>> \o SplitBarDash[SubSeq(s, 2, Len(s)), ""]
    ELSE SplitBarDash[SubSeq(s, 2, Len(s)), cur \o CharAt(s, 1)]

\* word.split(' ').length
SpaceSplitLength(word) == Cardinality({i \in 1..Len(word) : CharAt(word, i) = " "}) + 1

\* the end of the longest match of [a-z]* that starts at position i
LowerRunEnd[s \in STRING, i \in Nat] ==
    IF i <= Len(s) /\ IsLowerChar(CharAt(s, i)) THEN LowerRunEnd[s, i + 1] ELSE i - 1

\* the end of the match of [A-Z][a-z]+ that starts at position i, 0 without one
CapWordEnd(s, i) ==
    IF i + 1 <= Len(s) /\ IsUpperChar(CharAt(s, i)) /\ IsLowerChar(CharAt(s, i + 1))
    THEN LowerRunEnd[s, i + 1]
    ELSE 0

\* the first position from i on that holds no space
SkipSpaces[s \in STRING, i \in Nat] ==
    IF i <= Len(s) /\ CharAt(s, i) = " " THEN SkipSpaces[s, i + 1] ELSE i

\* the end of the longest match of (?:\s+[A-Z][a-z]+)* that starts after e
MoreCapWordsEnd[s \in STRING, e \in Nat] ==
    LET k == SkipSpaces[s, e + 1]
    IN  IF k > e + 1 /\ CapWordEnd(s, k) > 0 THEN MoreCapWordsEnd[s, CapWordEnd(s, k)] ELSE e

\* part_002:475-477  title.match(/[|\-]\s*([A-Z][a-z]+(?:\s+[A-Z][a-z]+)+)/):
\* [found, name], name being the first group of the leftmost match
CreatorMatch(title) ==
    LET StartOf(i) == SkipSpaces[title, i + 1]
        MatchesAt(i) == /\ CharAt(title, i) \in {"|", "-"}
                        /\ CapWordEnd(title, StartOf(i)) > 0
                        /\ MoreCapWordsEnd[title, CapWordEnd(title, StartOf(i))]
                               > CapWordEnd(title, StartOf(i))
        places == {i \in 1..Len(title) : MatchesAt(i)}
    IN  IF places = {} THEN [found |-> FALSE, name |-> ""]
        ELSE LET i == CHOOSE p \in places : \A q \in places : p <= q
             IN  [found |-> TRUE,
                  name |-> trim[SubSeq(title, StartOf(i),
                                       MoreCapWordsEnd[title, CapWordEnd(title, StartOf(i))])]]

\* Array.prototype.slice(-n)
LastN(seq, n) == IF Len(seq) <= n THEN seq ELSE SubSeq(seq, Len(seq) - n + 1, Len(seq))

\* part_002:486-496  the pieces of the title that become blocklist patterns:
\* more than 3 characters, at most 3 words, an upper-case first letter
BlockWords[words \in Seq(STRING), blocklist \in Seq(STRING)] ==
    IF Len(words) = 0 THEN blocklist
    ELSE LET word == words[1]
         IN  IF /\ Len(word) > 3
                /\ SpaceSplitLength(word) <= 3
                /\ IsUpperChar(CharAt(word, 1))
                /\ word \notin Range(blocklist)
             THEN BlockWords[Tail(words), Append(blocklist, word)]
             ELSE BlockWords[Tail(words), blocklist]

\* the feedback item of a video (its timestamp is left out)
FeedbackItem(video) == [title |-> video.title, url |-> video.url]

\* chrome.storage.local without collection_feedback (part_002:457)
NoCollectionFeedback == [positive |-> <<>>, negative |-> <<>>, blocklist |-> <<>>]

\* part_002:455-506  saveFeedback: the collection_feedback it writes
saveFeedback(feedback, video, type) ==
    LET updated ==
            IF type = "positive"
            THEN [positive |-> Append(feedback.positive, FeedbackItem(video)),
                  negative |-> SelectSeq(feedback.negative,
                                         LAMBDA item : item.url # video.url),
                  blocklist |-> SelectSeq(feedback.blocklist,
                                          LAMBDA pattern : ~includes[video.title, pattern])]
            ELSE LET creator == CreatorMatch(video.title)
                     withCreator ==
                         IF creator.found /\ creator.name \notin Range(feedback.blocklist)
                         THEN Append(feedback.blocklist, creator.name)
                         ELSE feedback.blocklist
                     pieces == SplitBarDash[video.title, ""]
                     titleWords == [i \in 1..Len(pieces) |-> trim[pieces[i]]]
                 IN  [positive |-> SelectSeq(feedback.positive,
                                             LAMBDA item : item.url # video.url),
                      negative |-> Append(feedback.negative, FeedbackItem(video)),
                      blocklist |-> BlockWords[titleWords, withCreator]]
    IN  [positive |-> LastN(updated.positive, 100),
         negative |-> LastN(updated.negative, 100),
         blocklist |-> LastN(updated.blocklist, 50)]

\* the videos of the page (content.js:1103-1136 extractVideoData: id, title, url)
VideoTitles ==
    <<"Piano Basics | Jerry Flowers", "Jerry Flowers Live in Concert", "learn piano fast">>
Videos ==
    [i \in 1..Len(VideoTitles) |->
        [id |-> "v" \o ToString(i), title |-> VideoTitles[i],
         url |-> "https://www.youtube.com/watch?v=v" \o ToString(i)]]
VideoNodes == [i \in 1..Len(Videos) |-> FreshNode(Videos[i].title)]

\* content.js:896-907  collectionState before any run
IdleCollection == [active |-> FALSE, maxVideos |-> 50, collectedVideos |-> <<>>,
                   processedIds |-> {}]

\* history: no run was started yet
NoRun ==
    [started |-> FALSE, blocklist |-> <<>>, negativeTags |-> <<>>, downBefore |-> {},
     completions |-> 0]

\* content.js:962  maxScrollAttempts
maxScrollAttempts == 200
\* content.js:994  noNewContentCount >= 8
NO_NEW_CONTENT_LIMIT == 8

\* content.js:897-906  the scroll side of collectionState before any run, no
\* timer set, no request to /match_tags made; the page at its first height
NoScroll ==
    [scrollInterval |-> 0, lastScrollHeight |-> 0, noNewContentCount |-> 0,
     starts |-> 0, timers |-> <<>>, requests |-> {}, scrollHeight |-> 1,
     submitted |-> {}, resubmitted |-> FALSE, foreign |-> FALSE, late |-> FALSE,
     staleTimerActed |-> FALSE, capped |-> FALSE]

\* nothing was collected and no feedback was given
NoCollection ==
    /\ scroll = NoScroll
    /\ collection_feedback = NoCollectionFeedback
    /\ isCollecting = FALSE
    /\ collectedVideos = <<>>
    /\ toContent = {}
    /\ toPopup = {}
    /\ collectionState = IdleCollection
    /\ collections = 0
    /\ thumbs = 0
    /\ thumbedDown = {}
    /\ collectionRun = NoRun

\* no item is being taken through the filters
NothingEvaluated == [stage |-> "none"]

\* the tab with init() at pc, showing the results (nodes) of a search (query)
TabWith(sync, pc, query, nodes) ==
    /\ syncSettings = sync
    /\ pageQuery = query
    /\ container = nodes
    /\ mutationPending = FALSE
    /\ toBackground = {}
    /\ toTab = {}
    /\ initPc = pc
    /\ settingsReady = FALSE
    /\ config = DEFAULT_CONFIG
    /\ imageThresholds = computeImageThresholds(DEFAULT_CONFIG.imageMode)
    /\ lastQueryTokens = <<>>
    /\ lastPayloadHash = NoHash
    /\ lastOrderSignature = <<>>
    /\ wrongBlacklist = getWrongBlacklist(<<>>)
    /\ resultCache = EmptyCache
    /\ loadBlacklistPending = FALSE
    /\ userActions = 0
    /\ judged = {}
    /\ lastRequest = NoRequestYet
    /\ lastLookup = NoLookup
    /\ lastApplied = NothingApplied
    /\ lastHandled = NothingHandled
    /\ stored = EmptyCache
    /\ NoCollection

\* a tab on a fresh installation: nothing was saved to chrome.storage.sync
TabAt(pc, query, nodes) == TabWith(STORAGE_DEFAULTS, pc, query, nodes)

\* that tab, no item being taken through the filters on its own
TabState(pc, query, nodes) ==
    /\ TabAt(pc, query, nodes)
    /\ evaluated = NothingEvaluated

\* no tab with a content script is open
NoTab == TabState("off", "", <<>>)

\* content.js:150-153  a results page was opened and the content script starts
TabOpens == \E query \in PageQueries : TabState("loadSettings", query, FreshResults)

\* content.js:335-368  requestAnalysis, called with the config, the
\* lastPayloadHash and the blacklist its caller left; the caller says what
\* becomes of the variables not named here.  settingsChanged tells the
\* history that the caller is handleStorageChanges with a relevant key: every
\* result received so far then dates from before the change.
requestAnalysis(cfg, thresholds, payloadHash, blacklist, settingsChanged) ==
    \E collected \in {collectEntries(container, pageQuery, cfg, blacklist, now)} :
    \E hash \in {HashOf(collected.payload)} :
    \E tokens \in {tokenize(collected.payload.query)} :
    LET payload == collected.payload
        request == [made |-> TRUE, query |-> payload.query,
                    titles |-> {normalizeTitle(payload.items[i].title) :
                                   i \in 1..Len(payload.items)}]
        hadEntry == hash \in DOMAIN resultCache
        hadStored == hash \in DOMAIN stored
        lookup == [made |-> TRUE, hash |-> hash, hadEntry |-> hadEntry,
                   age |-> IF hadEntry THEN now - resultCache[hash].timestamp ELSE 0,
                   hadStored |-> hadStored,
                   storedAge |-> IF hadStored THEN now - stored[hash].timestamp ELSE 0,
                   storedData |-> IF hadStored THEN stored[hash].data ELSE NoData,
                   preChange |-> hadStored /\ (settingsChanged \/ stored[hash].preChange),
                   blacklistCurrent |-> blacklist = getWrongBlacklist(search_feedback),
                   served |-> FALSE, data |-> NoData, sent |-> FALSE]
    IN  /\ UNCHANGED <<resultCache, toTab, lastHandled>>
        /\ stored' = IF settingsChanged
                     THEN [h \in DOMAIN stored |-> [stored[h] EXCEPT !.preChange = TRUE]]
                     ELSE stored
        /\ IF ~settingsReady
           THEN /\ lastPayloadHash' = payloadHash
                /\ mutationPending' = FALSE
                /\ UNCHANGED <<container, lastQueryTokens, lastOrderSignature, toBackground,
                               lastRequest, lastLookup, lastApplied>>
           ELSE IF ~collected.ok
           THEN /\ container' = collected.nodes
                /\ lastPayloadHash' = payloadHash
                /\ mutationPending' = FALSE
                /\ UNCHANGED <<lastQueryTokens, lastOrderSignature, toBackground,
                               lastRequest, lastLookup, lastApplied>>
           ELSE IF hash = payloadHash
           THEN /\ container' = collected.nodes
                /\ lastQueryTokens' = tokens
                /\ lastPayloadHash' = payloadHash
                /\ mutationPending' = FALSE
                /\ lastRequest' = request
                /\ UNCHANGED <<lastOrderSignature, toBackground, lastLookup, lastApplied>>
           ELSE IF hadEntry /\ CacheFresh(resultCache[hash], now)
           THEN \E applied \in {applySemanticRanking(resultCache[hash].data, collected.nodes,
                                    cfg, thresholds, tokens, blacklist, <<>>)} :
                    /\ container' = applied.nodes
                    /\ lastQueryTokens' = tokens
                    /\ lastPayloadHash' = hash
                    /\ lastOrderSignature' = applied.signature
                    /\ mutationPending' = applied.mutated
                    /\ lastRequest' = request
                    /\ lastLookup' = [lookup EXCEPT !.served = TRUE,
                                                    !.data = resultCache[hash].data]
                    /\ lastApplied' =
                          [from |-> "cache", hash |-> hash, current |-> hash,
                           changed |-> applied.nodes # collected.nodes,
                           highlights |-> \E k \in 1..Len(applied.nodes) :
                                             applied.nodes[k].highlighted,
                           data |-> resultCache[hash].data,
                           context |-> ContextOf(cfg, thresholds, tokens, blacklist),
                           items |-> AppliedItems(collected.nodes, resultCache[hash].data.ranked,
                                                  cfg, thresholds, tokens, blacklist),
                           shown |-> ShownIds(applied.nodes),
                           signature |-> applied.signature,
                           after |-> applied.nodes,
                           repeat |-> FALSE,
                           prevSignature |-> lastApplied.signature,
                           prevShown |-> lastApplied.shown]
                    /\ UNCHANGED toBackground
           ELSE /\ container' = collected.nodes
                /\ lastQueryTokens' = tokens
                /\ lastPayloadHash' = hash
                /\ lastOrderSignature' = <<>>
                /\ mutationPending' = FALSE
                /\ toBackground' = toBackground \cup {[payload |-> payload, hash |-> hash]}
                /\ lastRequest' = request
                /\ lastLookup' = [lookup EXCEPT !.sent = TRUE]
                /\ UNCHANGED lastApplied

\* content.js:155-165, 179-196  init(): styles, observer, then loadSettings
\* resolves with the stored settings
init_loadSettings ==
    /\ initPc = "loadSettings"
    /\ initPc' = "loadBlacklist"
    /\ config' = applySettings(config, syncSettings, ConfigKeys)
    /\ imageThresholds' = computeImageThresholds(config'.imageMode)
    /\ settingsReady' = TRUE
    /\ UNCHANGED <<storeVars, now, pageVars, lastQueryTokens, lastPayloadHash,
                   lastOrderSignature, wrongBlacklist, resultCache, loadBlacklistPending,
                   boundVars, judged, historyVars>>
    /\ UNCHANGED <<collectorVars, evaluated>>

\* content.js:166-173, 733-746  init(): loadBlacklist resolves with the answer
\* to get-blacklist, the two listeners are added, requestAnalysis is called
init_loadBlacklist ==
    /\ initPc = "loadBlacklist"
    /\ initPc' = "ready"
    /\ wrongBlacklist' = getWrongBlacklist(search_feedback)
    /\ judged' = {IF j.state = "logged" THEN [j EXCEPT !.state = "loaded"] ELSE j :
                     j \in judged}
    /\ requestAnalysis(config, imageThresholds, lastPayloadHash, wrongBlacklist', FALSE)
    /\ UNCHANGED <<storeVars, now, syncSettings, scoring, pageQuery, settingsReady, config,
                   imageThresholds, loadBlacklistPending, boundVars>>
    /\ UNCHANGED <<collectorVars, evaluated>>

\* content.js:733-746  a loadBlacklist() call started by handleStorageChanges
\* gets its answer from getWrongBlacklist (background.js:86-88)
loadBlacklist ==
    /\ ~mutationPending
    /\ loadBlacklistPending
    /\ loadBlacklistPending' = FALSE
    /\ wrongBlacklist' = getWrongBlacklist(search_feedback)
    /\ judged' = {IF j.state = "logged" THEN [j EXCEPT !.state = "loaded"] ELSE j :
                     j \in judged}
    /\ lastRequest' = [lastRequest EXCEPT !.made = FALSE]
    /\ UNCHANGED <<storeVars, now, pageVars, initPc, settingsReady, config, imageThresholds,
                   lastQueryTokens, lastPayloadHash, lastOrderSignature, resultCache,
                   boundVars, lastLookup, lastApplied, lastHandled, stored>>
    /\ UNCHANGED <<collectorVars, evaluated>>

\* content.js:246-250  the MutationObserver's callback
ObserverCallback ==
    /\ mutationPending
    /\ requestAnalysis(config, imageThresholds, lastPayloadHash, wrongBlacklist, FALSE)
    /\ UNCHANGED <<storeVars, now, syncSettings, scoring, pageQuery, initPc, settingsReady, config,
                   imageThresholds, wrongBlacklist, loadBlacklistPending, boundVars, judged>>
    /\ UNCHANGED <<collectorVars, evaluated>>

\* the user searches for something else; the page keeps its result nodes
\* (and their data-ai-semantic-id) while it re-renders
SearchChanges ==
    /\ ~mutationPending
    /\ initPc = "ready"
    /\ userActions < MaxUserActions
    /\ userActions' = userActions + 1
    /\ \E query \in PageQueries : query # pageQuery /\ pageQuery' = query
    /\ mutationPending' = TRUE
    /\ UNCHANGED <<storeVars, now, syncSettings, scoring, container, toBackground, toTab, scriptVars,
                   loadBlacklistPending, judged, historyVars>>
    /\ UNCHANGED <<collectorVars, evaluated>>

\* the page replaces its results by new nodes, some time later
ResultsLoad ==
    /\ ~mutationPending
    /\ initPc = "ready"
    /\ userActions < MaxUserActions
    /\ userActions' = userActions + 1
    /\ \E d \in TickSteps : now + d <= MaxNow /\ now' = now + d
    /\ container' = FreshResults
    /\ mutationPending' = TRUE
    /\ UNCHANGED <<storeVars, syncSettings, scoring, pageQuery, toBackground, toTab, scriptVars,
                   loadBlacklistPending, judged, historyVars>>
    /\ UNCHANGED <<collectorVars, evaluated>>

\* content.js:1195-1211 saveSettings of the popup, background.js:75-78
\* set-settings, and content.js:198-213 handleStorageChanges (area "sync") of a
\* listening content script
saveSettings ==
    /\ ~mutationPending
    /\ initPc = "ready"
    /\ userActions < MaxUserActions
    /\ userActions' = userActions + 1
    /\ \E choice \in SettingsChoices :
          LET changed == IF ~syncSettings.saved THEN ConfigKeys \cup {"enabled"}
                         ELSE {k \in ConfigKeys \cup {"enabled"} : choice[k] # syncSettings[k]}
              relevant == changed \cap RelevantKeys
          IN  /\ syncSettings' = choice
              /\ IF initPc = "ready" /\ relevant # {}
                 THEN /\ config' = applySettings(config, choice, relevant)
                      /\ imageThresholds' = computeImageThresholds(config'.imageMode)
                      /\ requestAnalysis(config', imageThresholds', NoHash, wrongBlacklist, TRUE)
                 ELSE UNCHANGED <<config, imageThresholds, container, lastQueryTokens,
                                  lastPayloadHash, lastOrderSignature, toBackground,
                                  mutationPending, toTab, resultCache, historyVars>>
    /\ UNCHANGED <<storeVars, now, scoring, pageQuery, initPc, settingsReady,
                   wrongBlacklist, loadBlacklistPending, judged>>
    /\ UNCHANGED <<collectorVars, evaluated>>

\* what the scorer may answer: an error, or scores for the items
ScorerAnswers(items) ==
    {[ok |-> FALSE, data |-> NoData]} \cup
    {[ok |-> TRUE, data |-> Scorer(items)]}

\* background.js:21-42  handleSemanticRequest up to its fetch: with the
\* extension disabled it answers semantic-disabled, else the request goes to
\* the scorer
handleSemanticRequest ==
    /\ \E message \in toBackground :
          /\ toBackground' = toBackground \ {message}
          /\ IF message.payload.query = "" \/ Len(message.payload.items) = 0
             THEN UNCHANGED toTab
             ELSE toTab' = toTab \cup
                      {[type |-> IF syncSettings.enabled THEN "fetch" ELSE "semantic-disabled",
                        payload |-> message.payload, hash |-> message.hash]}
          /\ lastHandled' = [made |-> TRUE, message |-> message,
                             answered |-> toTab' # toTab]
    /\ UNCHANGED <<storeVars, now, syncSettings, scoring, pageQuery, container, mutationPending,
                   scriptVars, loadBlacklistPending, boundVars, judged, lastRequest,
                   lastLookup, lastApplied, stored>>
    /\ UNCHANGED <<collectorVars, evaluated>>

\* background.js:44-64  the message the background sends when the fetch of a
\* request resolved with the answer
MessageFor(request, answer) ==
    IF answer.ok
    THEN [type |-> "semantic-results", data |-> answer.data, hash |-> request.hash]
    ELSE [type |-> "semantic-error", data |-> NoData, hash |-> NoHash]

\* content.js:258-295  handleRuntimeMessage: the answer of the background
\* reaches the tab (the scorer's answer is drawn as it arrives; a message that
\* finds no listener is lost)
handleRuntimeMessage ==
    /\ ~mutationPending
    /\ \E request \in toTab :
       \E answer \in IF request.type = "fetch" THEN ScorerAnswers(request.payload.items)
                     ELSE {[ok |-> FALSE, data |-> NoData]} :
          LET message == IF request.type = "fetch" THEN MessageFor(request, answer)
                         ELSE [type |-> "semantic-disabled", data |-> NoData,
                               hash |-> NoHash]
          IN
          /\ toTab' = toTab \ {request}
          /\ IF initPc = "ready" /\ message.type = "semantic-results"
             THEN \E applied \in {applySemanticRanking(message.data, container, config,
                                     imageThresholds, lastQueryTokens, wrongBlacklist,
                                     lastOrderSignature)} :
                      /\ resultCache' = CachePut(resultCache, message.hash, message.data, now)
                      /\ stored' = [h \in DOMAIN stored \cup {message.hash} |->
                                       IF h = message.hash
                                       THEN [data |-> message.data, timestamp |-> now,
                                             preChange |-> FALSE]
                                       ELSE stored[h]]
                      /\ container' = applied.nodes
                      /\ lastOrderSignature' = applied.signature
                      /\ mutationPending' = applied.mutated
                      /\ \E context \in {ContextOf(config, imageThresholds, lastQueryTokens,
                                                    wrongBlacklist)} :
                            lastApplied' =
                              [from |-> "message", hash |-> message.hash,
                               current |-> lastPayloadHash,
                               changed |-> applied.nodes # container,
                               highlights |-> \E k \in 1..Len(applied.nodes) :
                                                 applied.nodes[k].highlighted,
                               data |-> message.data,
                               context |-> context,
                               items |-> AppliedItems(container, message.data.ranked, config,
                                             imageThresholds, lastQueryTokens, wrongBlacklist),
                               shown |-> ShownIds(applied.nodes),
                               signature |-> applied.signature,
                               after |-> applied.nodes,
                               repeat |-> /\ lastApplied.from = "message"
                                          /\ Range(lastApplied.data.ranked) =
                                                Range(message.data.ranked)
                                          /\ lastApplied.context = context
                                          /\ lastApplied.after = container,
                               prevSignature |-> lastApplied.signature,
                               prevShown |-> lastApplied.shown]
             ELSE IF initPc = "ready" /\ message.type = "semantic-error"
             THEN /\ lastApplied' =
                        [NothingApplied EXCEPT
                            !.from = "error",
                            !.highlights = \E k \in 1..Len(container) :
                                              container[k].highlighted]
                  /\ UNCHANGED <<resultCache, stored, container, lastOrderSignature,
                                 mutationPending>>
             ELSE IF initPc = "ready" /\ message.type = "semantic-disabled"
             THEN /\ container' = clearHighlights(container)
                  /\ mutationPending' = \E k \in 1..Len(container) :
                                            container[k].highlighted /\ container[k].badge
                  /\ UNCHANGED <<resultCache, stored, lastOrderSignature, lastApplied>>
             ELSE UNCHANGED <<resultCache, stored, container, lastOrderSignature,
                              mutationPending, lastApplied>>
    /\ UNCHANGED <<storeVars, now, syncSettings, scoring, pageQuery, toBackground, initPc,
                   settingsReady, config, imageThresholds, lastQueryTokens, lastPayloadHash,
                   wrongBlacklist, loadBlacklistPending, boundVars, judged, lastRequest,
                   lastLookup, lastHandled>>
    /\ UNCHANGED <<collectorVars, evaluated>>

\* content.js:483-531  the user clicks a feedback button of a node: logFeedback
\* sends log-feedback, which the background hands to logSearchFeedback
logFeedback ==
    /\ ~mutationPending
    /\ userActions < MaxUserActions
    /\ userActions' = userActions + 1
    /\ \E k \in 1..Len(container), feedbackType \in {"helpful", "wrong"} :
          LET buttons == container[k].buttons
              payload == [query |-> JoinSpace[lastQueryTokens],
                          resultId |-> buttons.resultId, title |-> buttons.title,
                          feedback |-> feedbackType]
          IN  /\ buttons.has
              /\ logSearchFeedback(payload)
              /\ judged' = IF feedbackType = "wrong" /\ payload.query # ""
                              /\ payload.title # ""
                           THEN judged \cup {[call |-> logStarted + 1, query |-> pageQuery,
                                              title |-> normalizeTitle(buttons.title),
                                              state |-> "sent"]}
                           ELSE judged
    /\ UNCHANGED <<pageVars, scriptVars, loadBlacklistPending, historyVars>>
    /\ UNCHANGED <<collectorVars, evaluated>>

Init ==
    /\ search_feedback = <<>>
    /\ logCalls = {}
    /\ logStarted = 0
    /\ trainPending = 0
    /\ trainRuns = 0
    /\ trainRead = <<>>
    /\ trainBody = NoRequest
    /\ trainSent = 0
    /\ lastChange = NoChange
    /\ appended = <<>>
    /\ clears = 0
    /\ now = 0
    /\ NoTab
    /\ scoring = Scores

\* the background worker starts with whatever earlier sessions left in storage
InitStore ==
    /\ \E shape \in StoredLogShapes : search_feedback = StoredLog(shape[1], shape[2])
    /\ appended = search_feedback
    /\ logCalls = {}
    /\ logStarted = 0
    /\ trainPending = 0
    /\ trainRuns = 0
    /\ trainRead = <<>>
    /\ trainBody = NoRequest
    /\ trainSent = 0
    /\ lastChange = NoChange
    /\ clears = 0
    /\ now = 0
    /\ NoTab
    /\ scoring = Scores

Tick ==
    /\ \E d \in TickSteps : now + d <= MaxNow /\ now' = now + d
    /\ UNCHANGED <<storeVars, contentVars>>
    /\ UNCHANGED <<collectorVars, evaluated>>

LogFeedbackMessage ==
    /\ \E payload \in FeedbackPayloads : logSearchFeedback(payload)
    /\ UNCHANGED contentVars
    /\ UNCHANGED <<collectorVars, evaluated>>

\* the feedback store with log-feedback messages handled concurrently
NextStore ==
    \/ LogFeedbackMessage
    \/ logSearchFeedback_get
    \/ logSearchFeedback_set
    \/ clearFeedbackData
    \/ trainNegativeClassifier

SpecStore == InitStore /\ [][NextStore]_vars

\* one store operation at a time: a message or a clear is handled only when
\* no logSearchFeedback call is in flight
LogFeedbackAlone == logCalls = {} /\ LogFeedbackMessage
ClearAlone == logCalls = {} /\ clearFeedbackData

NextStoreSeq ==
    \/ LogFeedbackAlone
    \/ logSearchFeedback_get
    \/ logSearchFeedback_set
    \/ ClearAlone
    \/ trainNegativeClassifier

InitStoreCap ==
    /\ \E shape \in StoredLogShapesCap : search_feedback = StoredLog(shape[1], shape[2])
    /\ appended = search_feedback
    /\ logCalls = {}
    /\ logStarted = 0
    /\ trainPending = 0
    /\ trainRuns = 0
    /\ trainRead = <<>>
    /\ trainBody = NoRequest
    /\ trainSent = 0
    /\ lastChange = NoChange
    /\ clears = 0
    /\ now = 0
    /\ NoTab
    /\ scoring = Scores

SpecStoreSeq == InitStoreCap /\ [][NextStoreSeq]_vars

\* nothing is under way between the tab and the background
Quiet ==
    /\ ~mutationPending
    /\ initPc = "ready"
    /\ toBackground = {}
    /\ toTab = {}
    /\ logCalls = {}
    /\ ~loadBlacklistPending

\* exchanges take milliseconds: the clock of the model advances between them
TickIdle == Quiet /\ Tick

\* a fresh installation: nothing in storage, a results page is opened
InitRank ==
    /\ search_feedback = <<>>
    /\ appended = <<>>
    /\ logCalls = {}
    /\ logStarted = 0
    /\ trainPending = 0
    /\ trainRuns = 0
    /\ trainRead = <<>>
    /\ trainBody = NoRequest
    /\ trainSent = 0
    /\ lastChange = NoChange
    /\ clears = 0
    /\ now = 0
    /\ TabOpens
    /\ scoring = Scores

\* the tab with its content script, the background worker and the popup (the
\* log stays far below the length at which the trainer is triggered)
NextRank ==
    \/ init_loadSettings
    \/ init_loadBlacklist
    \/ loadBlacklist
    \/ ObserverCallback
    \/ SearchChanges
    \/ ResultsLoad
    \/ saveSettings
    \/ handleSemanticRequest
    \/ handleRuntimeMessage
    \/ logFeedback
    \/ logSearchFeedback_get
    \/ logSearchFeedback_set
    \/ ClearAlone
    \/ TickIdle

SpecRank == InitRank /\ [][NextRank]_vars

\* the searches and result pages of the ranking runs: the "apple pie" search
\* with three or two results, a page without results, a page without query
OrderQueries == {"apple pie", ""}
OrderPages == {OrderResults, SubSeq(OrderResults, 1, 2), <<>>}

\* a fresh installation, a results page is opened
InitOrder ==
    /\ search_feedback = <<>>
    /\ appended = <<>>
    /\ logCalls = {}
    /\ logStarted = 0
    /\ trainPending = 0
    /\ trainRuns = 0
    /\ trainRead = <<>>
    /\ trainBody = NoRequest
    /\ trainSent = 0
    /\ lastChange = NoChange
    /\ clears = 0
    /\ now = 0
    /\ \E query \in OrderQueries, nodes \in OrderPages :
          TabState("loadSettings", query, nodes)
    /\ scoring \in {given \in [Range(OrderTitles) -> UNION Range(ScoreChoices)] :
                       \A title \in Range(OrderTitles) : given[title] \in ScoreChoices[title]}

\* the user saves the settings once
saveSettingsOnce == userActions = 0 /\ saveSettings

\* the page loses what a ranking needs: the user leaves the search (getQuery,
\* content.js:607-610, then answers ""), or the page removes its result nodes
\* (querySelectorAll(RESULT_SELECTOR), content.js:298, then answers none)
PageEmpties ==
    /\ ~mutationPending
    /\ initPc = "ready"
    /\ userActions < MaxUserActions
    /\ userActions' = userActions + 1
    /\ pageQuery # "" /\ Len(container) > 0
    /\ \/ pageQuery' = "" /\ UNCHANGED container
       \/ container' = <<>> /\ UNCHANGED pageQuery
    /\ mutationPending' = TRUE
    /\ UNCHANGED <<storeVars, now, syncSettings, scoring, toBackground, toTab, scriptVars,
                   loadBlacklistPending, judged, historyVars>>
    /\ UNCHANGED <<collectorVars, evaluated>>

\* semantic-score messages without a query or without items
MalformedRequests ==
    { [payload |-> [query |-> query, items |-> items], hash |-> NoHash] :
        <<query, items>> \in
            { <<"", <<>> >>, <<"apple pie", <<>> >>,
              <<"", <<[id |-> ResultId(0, 0), title |-> OrderTitles[1],
                       description |-> ""]>> >> } }

\* background.js:67-71  the listener hands every message of type
\* semantic-score to handleSemanticRequest, whoever sent it and whatever its
\* payload
malformedSemanticScore ==
    /\ userActions = 0
    /\ userActions' = userActions + 1
    /\ \E message \in MalformedRequests : toBackground' = toBackground \cup {message}
    /\ UNCHANGED <<storeVars, now, syncSettings, scoring, pageQuery, container,
                   mutationPending, toTab, scriptVars, loadBlacklistPending, judged,
                   historyVars>>
    /\ UNCHANGED <<collectorVars, evaluated>>

\* the tab ranking one page, with whatever the scorer answers, while the
\* user saves settings from the popup and the page may lose its results
NextOrder ==
    \/ init_loadSettings
    \/ init_loadBlacklist
    \/ ObserverCallback
    \/ saveSettingsOnce
    \/ PageEmpties
    \/ malformedSemanticScore
    \/ handleSemanticRequest
    \/ handleRuntimeMessage

SpecOrder == InitOrder /\ [][NextOrder]_vars

\* the tab ranking one page, left to itself: nothing changes the page, the
\* settings or the feedback but the content script
NextCycle ==
    \/ init_loadSettings
    \/ init_loadBlacklist
    \/ ObserverCallback
    \/ handleSemanticRequest
    \/ handleRuntimeMessage

\* a queued observer callback runs, a message sent is delivered and a fetch
\* is answered
SpecCycle ==
    /\ InitOrder
    /\ [][NextCycle]_vars
    /\ WF_vars(init_loadSettings) /\ WF_vars(init_loadBlacklist)
    /\ WF_vars(ObserverCallback)
    /\ WF_vars(handleSemanticRequest)
    /\ WF_vars(handleRuntimeMessage)

-----------------------------------------------------------------------------
(* The Tag Collector: a collection run, and the user's thumbs *)

\* the popup's "max videos" input
MaxVideosChoices == {1, 3}

\* input.split(','): the pieces between the commas
SplitComma[s \in STRING, cur \in STRING] ==
    IF s = "" THEN <<cur>>
    ELSE IF CharAt(s, 1) = ","
    THEN <<cur>> \o SplitComma[SubSeq(s, 2, Len(s)), ""]
    ELSE SplitComma[SubSeq(s, 2, Len(s)), cur \o CharAt(s, 1)]

\* part_002:166-167  the negative tags of the popup's input
NegativeTagsOf(input) ==
    IF trim[input] = "" THEN <<>>
    ELSE LET pieces == SplitComma[trim[input], ""]
         IN  SelectSeq([i \in 1..Len(pieces) |-> trim[pieces[i]]], LAMBDA t : t # "")

\* what the user may type into the popup's "negative tags" input
NegativeTagsInputs == {"", "piano", " live , concert,"}

\* part_002:148-206  startCollection of the popup (tags were chosen, the
\* active tab is the YouTube tab)
startCollection ==
    /\ ~isCollecting
    /\ collections < MaxCollections
    /\ collections' = collections + 1
    /\ isCollecting' = TRUE
    /\ collectedVideos' = <<>>
    /\ \E maxVideos \in MaxVideosChoices, input \in NegativeTagsInputs :
          toContent' = toContent \cup
              {[type |-> "start-collection", negativeTags |-> NegativeTagsOf(input),
                blocklist |-> collection_feedback.blocklist, maxVideos |-> maxVideos]}
    /\ UNCHANGED <<collection_feedback, toPopup, collectionState, thumbs, thumbedDown,
                   collectionRun>>
    /\ UNCHANGED <<storeVars, now, contentVars, evaluated, scroll>>

\* content.js:258-262, 917-939  the content script takes start-collection:
\* startVideoCollection reads tags, minScore, maxVideos and backendUrl of the
\* message
startVideoCollection ==
    /\ initPc = "ready"
    /\ \E message \in toContent :
          /\ message.type = "start-collection"
          /\ toContent' = toContent \ {message}
          /\ collectionState' = [active |-> TRUE, maxVideos |-> message.maxVideos,
                                 collectedVideos |-> <<>>, processedIds |-> {}]
          /\ collectionRun' = [started |-> TRUE, blocklist |-> message.blocklist,
                               negativeTags |-> message.negativeTags,
                               downBefore |-> thumbedDown, completions |-> 0]
    /\ UNCHANGED <<collection_feedback, isCollecting, collectedVideos, toPopup,
                   collections, thumbs, thumbedDown>>
    /\ UNCHANGED <<storeVars, now, contentVars, evaluated, scroll>>

\* every match is added
PushMatchesAll(matches, collected, maxVideos) == collected \o matches

\* content.js:1072-1077  the matches are added until maxVideos is reached
PushMatches(matches, collected, maxVideos) ==
    collected \o SubSeq(matches, 1, Min(Len(matches), maxVideos - Len(collected)))

\* content.js:961-1014 a tick of the scroll interval with 1017-1100
\* collectVisibleVideos: the videos not processed yet go to POST /match_tags
\* with the tags and the minimum score, and the matches it answers are
\* collected (the tag matcher may match any of the videos it was sent)
collectVisibleVideos ==
    /\ collectionState.active
    /\ Len(collectionState.collectedVideos) < collectionState.maxVideos
    /\ LET newVideos == SelectSeq(Videos,
                            LAMBDA video : video.id \notin collectionState.processedIds)
       IN  /\ Len(newVideos) > 0
           /\ \E matched \in SUBSET {newVideos[i].id : i \in 1..Len(newVideos)} :
                 collectionState' =
                     [collectionState EXCEPT
                        !.processedIds = @ \cup {newVideos[i].id : i \in 1..Len(newVideos)},
                        !.collectedVideos =
                            PushMatches(SelectSeq(newVideos,
                                                  LAMBDA video : video.id \in matched),
                                        @, collectionState.maxVideos)]
    /\ UNCHANGED <<collection_feedback, isCollecting, collectedVideos, toContent, toPopup,
                   collections, thumbs, thumbedDown, collectionRun>>
    /\ UNCHANGED <<storeVars, now, contentVars, evaluated, scroll>>

\* content.js:941-958  stopVideoCollection: the run is no longer active and
\* collection-complete goes to the popup with what was collected
stopVideoCollection ==
    /\ collectionState' = [collectionState EXCEPT !.active = FALSE]
    /\ toPopup' = toPopup \cup {[type |-> "collection-complete",
                                 videos |-> collectionState.collectedVideos]}

\* content.js:964-998  a tick of the scroll interval that ends the run:
\* maxVideos was reached, or the page had nothing new for eight ticks
startAutoScroll_stop ==
    /\ collectionState.active
    /\ stopVideoCollection
    /\ UNCHANGED <<collection_feedback, isCollecting, collectedVideos, toContent,
                   collections, thumbs, thumbedDown, collectionRun>>
    /\ UNCHANGED <<storeVars, now, contentVars, evaluated, scroll>>

\* content.js:263-266  the content script takes stop-collection: it calls
\* stopVideoCollection, active or not
handleRuntimeMessage_stop ==
    /\ initPc = "ready"
    /\ \E message \in toContent :
          /\ message.type = "stop-collection"
          /\ toContent' = toContent \ {message}
    /\ stopVideoCollection
    /\ UNCHANGED <<collection_feedback, isCollecting, collectedVideos, collections, thumbs,
                   thumbedDown, collectionRun>>
    /\ UNCHANGED <<storeVars, now, contentVars, evaluated, scroll>>

\* part_002:208-222  stopCollection of the popup, here by the user's click on
\* the stop button (shown while a collection runs): stop-collection goes to
\* the tab
stopCollection ==
    /\ isCollecting
    /\ isCollecting' = FALSE
    /\ toContent' = toContent \cup {[type |-> "stop-collection"]}
    /\ UNCHANGED <<collection_feedback, collectedVideos, toPopup, collectionState,
                   collections, thumbs, thumbedDown, collectionRun>>
    /\ UNCHANGED <<storeVars, now, contentVars, evaluated, scroll>>

\* part_002:331-343 with 208-222  the popup takes collection-complete: it
\* keeps the videos, calls stopCollection, which sends stop-collection to the
\* tab, and displays the videos
collectionComplete ==
    /\ collectionRun.completions < MaxCompletions
    /\ \E message \in toPopup :
          /\ toPopup' = toPopup \ {message}
          /\ collectedVideos' = message.videos
    /\ isCollecting' = FALSE
    /\ toContent' = toContent \cup {[type |-> "stop-collection"]}
    /\ collectionRun' = [collectionRun EXCEPT !.completions = @ + 1]
    /\ UNCHANGED <<collection_feedback, collectionState, collections, thumbs, thumbedDown>>
    /\ UNCHANGED <<storeVars, now, contentVars, evaluated, scroll>>

\* part_002:277-288  the user clicks thumbs-down on a displayed video
thumbsDown ==
    /\ thumbs < MaxThumbs
    /\ thumbs' = thumbs + 1
    /\ \E k \in 1..Len(collectedVideos) :
          /\ collection_feedback' = saveFeedback(collection_feedback, collectedVideos[k],
                                                 "negative")
          /\ thumbedDown' = thumbedDown \cup {collectedVideos[k].id}
    /\ UNCHANGED <<isCollecting, collectedVideos, toContent, toPopup, collectionState,
                   collections, collectionRun>>
    /\ UNCHANGED <<storeVars, now, contentVars, evaluated, scroll>>

\* part_002:269-275  the user clicks thumbs-up on a displayed video
thumbsUp ==
    /\ thumbs < MaxThumbs
    /\ thumbs' = thumbs + 1
    /\ \E k \in 1..Len(collectedVideos) :
          /\ collection_feedback' = saveFeedback(collection_feedback, collectedVideos[k],
                                                 "positive")
          /\ thumbedDown' = thumbedDown \ {collectedVideos[k].id}
    /\ UNCHANGED <<isCollecting, collectedVideos, toContent, toPopup, collectionState,
                   collections, collectionRun>>
    /\ UNCHANGED <<storeVars, now, contentVars, evaluated, scroll>>

\* a fresh installation; the content script starts on a YouTube page that
\* lists the videos and has no search query
InitCollect ==
    /\ search_feedback = <<>>
    /\ appended = <<>>
    /\ logCalls = {}
    /\ logStarted = 0
    /\ trainPending = 0
    /\ trainRuns = 0
    /\ trainRead = <<>>
    /\ trainBody = NoRequest
    /\ trainSent = 0
    /\ lastChange = NoChange
    /\ clears = 0
    /\ now = 0
    /\ TabState("loadSettings", "", VideoNodes)
    /\ scoring = Scores

\* the popup and the content script collecting videos, the user judging them
NextCollect ==
    \/ init_loadSettings
    \/ init_loadBlacklist
    \/ startCollection
    \/ startVideoCollection
    \/ collectVisibleVideos
    \/ startAutoScroll_stop
    \/ handleRuntimeMessage_stop
    \/ stopCollection
    \/ collectionComplete
    \/ thumbsDown
    \/ thumbsUp

SpecCollect == InitCollect /\ [][NextCollect]_vars

-----------------------------------------------------------------------------
(* The Tag Collector: the scroll timers of the content script *)

\* document.documentElement.scrollHeight as the page may have it
Heights == {1, 2}

\* content.js:1018  querySelectorAll(RESULT_SELECTOR): the longer page shows
\* all the videos, the shorter one all but the last
VisibleVideos(height) == SubSeq(Videos, 1, Len(Videos) - 2 + height)

\* the timers setInterval has set and clearInterval has not cleared
LiveTimers == {t \in 1..Len(scroll.timers) : scroll.timers[t].live}

\* clearInterval(id)
ClearInterval(timers, id) ==
    [t \in 1..Len(timers) |-> IF t = id THEN [timers[t] EXCEPT !.live = FALSE] ELSE timers[t]]

\* content.js:952-954  the message stopVideoCollection sends
CollectionComplete(state) ==
    [type |-> "collection-complete", videos |-> state.collectedVideos]

\* content.js:941-958  stopVideoCollection as called by a tick or a response:
\* state and sc are collectionState and its scroll side as the caller left
\* them, sent the messages the caller has sent to the popup
stopVideoCollectionFrom(state, sc, sent) ==
    /\ collectionState' = [state EXCEPT !.active = FALSE]
    /\ scroll' = [sc EXCEPT !.timers = ClearInterval(@, sc.scrollInterval)]
    /\ toPopup' = toPopup \cup sent \cup {CollectionComplete(state)}

\* content.js:985-1013  the rest of a tick after collectVisibleVideos: the
\* page height is compared, the page is scrolled (and may change its height)
AfterCollect(state, sc, sent) ==
    IF sc.scrollHeight = sc.lastScrollHeight
       /\ sc.noNewContentCount + 1 >= NO_NEW_CONTENT_LIMIT
    THEN stopVideoCollectionFrom(state, [sc EXCEPT !.noNewContentCount = @ + 1], sent)
    ELSE /\ collectionState' = state
         /\ toPopup' = toPopup \cup sent
         /\ \E height \in Heights :
               scroll' = [sc EXCEPT
                            !.noNewContentCount =
                                IF sc.scrollHeight = sc.lastScrollHeight THEN @ + 1 ELSE 0,
                            !.lastScrollHeight = sc.scrollHeight,
                            !.scrollHeight = height]

\* a tick counter that stays as it is
CountAttemptNever(scrollAttempts) == scrollAttempts

\* no video id is remembered
ProcessedIdsForgotten(processedIds, newVideos) == processedIds

\* content.js:1030  collectionState.processedIds.add(videoData.id)
ProcessedIds(processedIds, newVideos) == processedIds \cup newVideos

\* content.js:978  scrollAttempts++
CountAttempt(scrollAttempts) == scrollAttempts + 1

\* content.js:260-262, 917-939, 960-964  start-collection is taken:
\* startVideoCollection replaces collectionState and startAutoScroll sets a
\* new interval
StartTimer ==
    /\ initPc = "ready"
    /\ \E maxVideos \in MaxVideosChoices :
          collectionState' = [active |-> TRUE, maxVideos |-> maxVideos,
                              collectedVideos |-> <<>>, processedIds |-> {}]
    /\ scroll' = [scroll EXCEPT
                    !.starts = @ + 1,
                    !.scrollInterval = scroll.starts + 1,
                    !.lastScrollHeight = 0,
                    !.noNewContentCount = 0,
                    !.timers = Append(@, [live |-> TRUE, scrollAttempts |-> 0])]
    /\ UNCHANGED <<collection_feedback, isCollecting, collectedVideos, toContent, toPopup,
                   collections, thumbs, thumbedDown, collectionRun>>
    /\ UNCHANGED <<storeVars, now, contentVars, evaluated>>

\* the first start-collection message of a tab
startCollectionFirst == scroll.starts = 0 /\ StartTimer

\* a start-collection message, whether a run is active or not
startCollectionMessage == scroll.starts < MaxStarts /\ StartTimer

\* content.js:263-266, 941-958  stop-collection is taken
stopCollectionMessage ==
    /\ initPc = "ready"
    /\ scroll.starts > 0
    /\ stopVideoCollectionFrom(collectionState, scroll, {})
    /\ UNCHANGED <<collection_feedback, isCollecting, collectedVideos, toContent,
                   collections, thumbs, thumbedDown, collectionRun>>
    /\ UNCHANGED <<storeVars, now, contentVars, evaluated>>

\* content.js:964-1014 with 1017-1061  the callback of interval t runs up to the
\* fetch of collectVisibleVideos, or to its end when nothing new is visible
IntervalTick(t) ==
    /\ t \in LiveTimers
    /\ IF ~collectionState.active
       THEN /\ scroll' = [scroll EXCEPT !.timers = ClearInterval(@, scroll.scrollInterval)]
            /\ UNCHANGED <<collectionState, toPopup>>
       ELSE IF Len(collectionState.collectedVideos) >= collectionState.maxVideos
       THEN stopVideoCollectionFrom(collectionState, scroll, {})
       ELSE LET counted == [scroll EXCEPT !.timers[t].scrollAttempts = CountAttempt(@)]
                visible == VisibleVideos(scroll.scrollHeight)
                newVideos == {visible[i].id : i \in 1..Len(visible)}
                                \ collectionState.processedIds
                acted == [counted EXCEPT !.staleTimerActed = @ \/ t # scroll.scrollInterval]
            IN  IF scroll.timers[t].scrollAttempts > maxScrollAttempts
                THEN stopVideoCollectionFrom(collectionState, counted, {})
                ELSE IF newVideos = {}
                THEN AfterCollect(collectionState, acted, {})
                ELSE /\ collectionState' =
                           [collectionState EXCEPT !.processedIds = ProcessedIds(@, newVideos)]
                     /\ scroll' =
                           [acted EXCEPT
                              !.requests = @ \cup {[run |-> scroll.starts, videos |-> newVideos]},
                              !.submitted = @ \cup {<<scroll.starts, id>> : id \in newVideos},
                              !.resubmitted =
                                  @ \/ \E id \in newVideos : <<scroll.starts, id>> \in scroll.submitted]
                     /\ UNCHANGED toPopup
    /\ UNCHANGED <<collection_feedback, isCollecting, collectedVideos, toContent,
                   collections, thumbs, thumbedDown, collectionRun>>
    /\ UNCHANGED <<storeVars, now, contentVars, evaluated>>

\* a tick of a live interval
intervalTick == \E t \in LiveTimers : IntervalTick(t)

\* one of the first ticks of a live interval
intervalTickEarly ==
    \E t \in LiveTimers : scroll.timers[t].scrollAttempts < MaxTicks /\ IntervalTick(t)

\* content.js:1062-1078, 985-1013  /match_tags answers a request with the
\* videos it matched: they are pushed to collectionState.collectedVideos, and
\* the tick that made the request goes on
matchTagsResponse ==
    /\ \E request \in scroll.requests, matched \in SUBSET Range(Videos) :
          /\ \A video \in matched : video.id \in request.videos
          /\ LET matches == SelectSeq(Videos, LAMBDA video : video \in matched)
                 pushed == PushMatches(matches, collectionState.collectedVideos,
                                       collectionState.maxVideos)
                 added == Len(pushed) > Len(collectionState.collectedVideos)
             IN  AfterCollect([collectionState EXCEPT !.collectedVideos = pushed],
                              [scroll EXCEPT
                                 !.requests = @ \ {request},
                                 !.foreign = @ \/ (added /\ request.run # scroll.starts),
                                 !.late = @ \/ (added /\ ~collectionState.active),
                                 !.capped = @ \/ Len(pushed) < Len(collectionState.collectedVideos) + Len(matches)],
                              {})
    /\ UNCHANGED <<collection_feedback, isCollecting, collectedVideos, toContent,
                   collections, thumbs, thumbedDown, collectionRun>>
    /\ UNCHANGED <<storeVars, now, contentVars, evaluated>>

\* content.js:1080-1098, 985-1013  the fetch of a request fails: on 'Failed to
\* fetch' collection-error is sent and stopVideoCollection called; in either
\* case the tick that made the request goes on
matchTagsFails ==
    /\ \E request \in scroll.requests, fatal \in BOOLEAN :
          LET sc == [scroll EXCEPT !.requests = @ \ {request}]
          IN  IF fatal
              THEN AfterCollect([collectionState EXCEPT !.active = FALSE],
                                [sc EXCEPT !.timers = ClearInterval(@, sc.scrollInterval)],
                                {[type |-> "collection-error"],
                                 CollectionComplete(collectionState)})
              ELSE AfterCollect(collectionState, sc, {})
    /\ UNCHANGED <<collection_feedback, isCollecting, collectedVideos, toContent,
                   collections, thumbs, thumbedDown, collectionRun>>
    /\ UNCHANGED <<storeVars, now, contentVars, evaluated>>

\* start-collection and stop-collection arrive in any order, a start also
\* while a run is active; the timers tick and /match_tags answers in any order
NextScroll ==
    \/ init_loadSettings
    \/ init_loadBlacklist
    \/ startCollectionMessage
    \/ stopCollectionMessage
    \/ intervalTickEarly
    \/ matchTagsResponse
    \/ matchTagsFails

SpecScroll == InitCollect /\ [][NextScroll]_vars

\* one collection run, left to its timer
NextTimer ==
    \/ init_loadSettings
    \/ init_loadBlacklist
    \/ startCollectionFirst
    \/ intervalTick
    \/ matchTagsResponse
    \/ matchTagsFails

\* the timer keeps ticking; /match_tags may leave a request unanswered
SpecTimer == InitCollect /\ [][NextTimer]_vars /\ WF_vars(intervalTick)

-----------------------------------------------------------------------------
(* The settings: whatever chrome.storage.sync holds *)

\* a JavaScript value as storage may hold it (n in thousandths); NaN stands
\* for every number that is not finite, undefined for a key that was removed
JsNumber(n) == [type |-> "number", n |-> n, s |-> "", b |-> FALSE]
JsString(s) == [type |-> "string", n |-> 0, s |-> s, b |-> FALSE]
JsBoolean(b) == [type |-> "boolean", n |-> 0, s |-> "", b |-> b]
JsNaN == [type |-> "nan", n |-> 0, s |-> "", b |-> FALSE]
JsNull == [type |-> "null", n |-> 0, s |-> "", b |-> FALSE]
JsUndefined == [type |-> "undefined", n |-> 0, s |-> "", b |-> FALSE]

\* the strings of the runs that Number() reads as a number
NumericStrings == ("12" :> 12000) @@ ("" :> 0)

\* Number(value): [finite, n]
NumberOf(value) ==
    CASE value.type = "number" -> [finite |-> TRUE, n |-> value.n]
      [] value.type = "boolean" -> [finite |-> TRUE, n |-> IF value.b THEN 1000 ELSE 0]
      [] value.type = "null" -> [finite |-> TRUE, n |-> 0]
      [] value.type = "string" /\ value.s \in DOMAIN NumericStrings ->
            [finite |-> TRUE, n |-> NumericStrings[value.s]]
      [] OTHER -> [finite |-> FALSE, n |-> 0]

\* a clamp that keeps what it is given
clampOrFallbackNone(number, min, max, fallback) == number.n

\* content.js:885-890  clamp(value, min, max, fallback)
clampOrFallback(number, min, max, fallback) ==
    IF ~number.finite THEN fallback ELSE clamp(number.n, min, max)

\* Math.round of a number not below zero
MathRound(n) == (n + 500) \div 1000

\* typeof value === "boolean" ? value : fallback
BooleanOr(value, fallback) == IF value.type = "boolean" THEN value.b ELSE fallback

\* content.js:881-883  normalizeImageMode of any value
normalizeImageModeOf(value) ==
    IF value.type = "string" THEN normalizeImageMode(value.s) ELSE DEFAULT_CONFIG.imageMode

\* the config as the spread { ...config } hands it to applySettings
ConfigValues(cfg) ==
    [k \in ConfigKeys |->
        CASE k = "maxItems" -> JsNumber(cfg.maxItems * 1000)
          [] k = "minScore" -> JsNumber(cfg.minScore)
          [] k = "imageMode" -> JsString(cfg.imageMode)
          [] OTHER -> JsBoolean(cfg[k])]

\* content.js:220-234  applySettings(partial) for a partial of any values
applySettingsOf(cfg, partial) ==
    LET candidate == [k \in ConfigKeys |->
                         IF k \in DOMAIN partial THEN partial[k] ELSE ConfigValues(cfg)[k]]
    IN  [maxItems |-> MathRound(clampOrFallback(NumberOf(candidate["maxItems"]), 5000, 50000,
                                                DEFAULT_CONFIG.maxItems * 1000)),
         minScore |-> clampOrFallback(NumberOf(candidate["minScore"]), 0, 1000,
                                      DEFAULT_CONFIG.minScore),
         enableReorder |-> BooleanOr(candidate["enableReorder"], DEFAULT_CONFIG.enableReorder),
         showBadges |-> BooleanOr(candidate["showBadges"], DEFAULT_CONFIG.showBadges),
         imageMode |-> normalizeImageModeOf(candidate["imageMode"]),
         enableMusicFilter |-> BooleanOr(candidate["enableMusicFilter"],
                                         DEFAULT_CONFIG.enableMusicFilter),
         enableBrandFilter |-> BooleanOr(candidate["enableBrandFilter"],
                                         DEFAULT_CONFIG.enableBrandFilter),
         enableIntentBoost |-> BooleanOr(candidate["enableIntentBoost"],
                                         DEFAULT_CONFIG.enableIntentBoost),
         enableTemporalBoost |-> BooleanOr(candidate["enableTemporalBoost"],
                                           DEFAULT_CONFIG.enableTemporalBoost)]

\* values of every kind: numbers below, within and above the ranges, whole
\* and not, NaN, strings, booleans, null, and undefined
StoredValues ==
    {JsNumber(n) : n \in {-1000, 500, 5400, 49500, 60000}} \cup
    {JsString(s) : s \in {"abc", "12", "strict", "boosted"}} \cup
    {JsBoolean(b) : b \in BOOLEAN} \cup {JsNaN, JsNull}

\* what chrome.storage.sync may hold when the tab opens: the same value under
\* every key, or nothing
StoredAtStart ==
    {[k \in ConfigKeys |-> value] : value \in StoredValues}
    \cup {[k \in ConfigKeys |-> JsUndefined]}

\* content.js:186  chrome.storage.sync.get(STORAGE_DEFAULTS): the stored
\* value of each key, the default where there is none
StoredOrDefaults(sync) ==
    [k \in ConfigKeys |->
        IF sync[k] = JsUndefined THEN ConfigValues(DEFAULT_CONFIG)[k] ELSE sync[k]]

\* a page without results is opened over a storage that holds anything
InitSettings ==
    /\ search_feedback = <<>>
    /\ appended = <<>>
    /\ logCalls = {}
    /\ logStarted = 0
    /\ trainPending = 0
    /\ trainRuns = 0
    /\ trainRead = <<>>
    /\ trainBody = NoRequest
    /\ trainSent = 0
    /\ lastChange = NoChange
    /\ clears = 0
    /\ now = 0
    /\ \E sync \in StoredAtStart : TabWith(sync, "loadSettings", "", <<>>)
    /\ evaluated = NothingEvaluated
    /\ scoring = [title \in Range(OrderTitles) |-> CHOOSE score \in ScoreChoices[title] : TRUE]

\* content.js:179-196  loadSettings of init(): applySettings with what the
\* storage holds
loadSettings ==
    /\ initPc = "loadSettings"
    /\ initPc' = "loadBlacklist"
    /\ config' = applySettingsOf(config, StoredOrDefaults(syncSettings))
    /\ imageThresholds' = computeImageThresholds(config'.imageMode)
    /\ settingsReady' = TRUE
    /\ UNCHANGED <<storeVars, now, pageVars, lastQueryTokens, lastPayloadHash,
                   lastOrderSignature, wrongBlacklist, resultCache, loadBlacklistPending,
                   boundVars, judged, historyVars>>
    /\ UNCHANGED <<collectorVars, evaluated>>

\* the keys that change while the tab is open: the ones handleStorageChanges
\* looks at and one it does not
ChangedKeys == RelevantKeys \cup {"enableMusicFilter"}

\* content.js:198-213  handleStorageChanges (area "sync"): a key of the
\* storage is set to a new value or removed
handleStorageChanges ==
    /\ ~mutationPending
    /\ initPc = "ready"
    /\ userActions < MaxChanges
    /\ userActions' = userActions + 1
    /\ \E key \in ChangedKeys, newValue \in StoredValues \cup {JsUndefined} :
          /\ newValue # syncSettings[key]
          /\ syncSettings' = [syncSettings EXCEPT ![key] = newValue]
          /\ IF key \in RelevantKeys
             THEN /\ config' = applySettingsOf(config, (key :> newValue))
                  /\ imageThresholds' = computeImageThresholds(config'.imageMode)
                  /\ requestAnalysis(config', imageThresholds', NoHash, wrongBlacklist, TRUE)
             ELSE UNCHANGED <<config, imageThresholds, container, lastQueryTokens,
                              lastPayloadHash, lastOrderSignature, toBackground,
                              mutationPending, toTab, resultCache, historyVars>>
    /\ UNCHANGED <<storeVars, now, scoring, pageQuery, initPc, settingsReady,
                   wrongBlacklist, loadBlacklistPending, judged>>
    /\ UNCHANGED <<collectorVars, evaluated>>

\* the tab while the storage changes under it
NextSettings ==
    \/ loadSettings
    \/ init_loadBlacklist
    \/ handleStorageChanges

SpecSettings == InitSettings /\ [][NextSettings]_vars

-----------------------------------------------------------------------------
(* One item: the settings in force, the filter chain, the tier *)

\* background.js:2-14  DEFAULT_SETTINGS of the background worker
DEFAULT_SETTINGS ==
    [saved |-> FALSE, enabled |-> TRUE, maxItems |-> 100, minScore |-> 0,
     enableReorder |-> TRUE, showBadges |-> TRUE, imageMode |-> "balanced",
     enableMusicFilter |-> TRUE, enableBrandFilter |-> TRUE, enableIntentBoost |-> TRUE,
     enableTemporalBoost |-> TRUE]

\* content.js:1138-1150  DEFAULTS of the popup
DEFAULTS ==
    [saved |-> FALSE, enabled |-> TRUE, maxItems |-> 30, minScore |-> 250,
     imageMode |-> "balanced", enableReorder |-> TRUE, showBadges |-> TRUE,
     enableMusicFilter |-> TRUE, enableBrandFilter |-> TRUE, enableIntentBoost |-> TRUE,
     enableTemporalBoost |-> TRUE]

\* background.js:16-19  getSettings: chrome.storage.sync.get(DEFAULT_SETTINGS)
\* over DEFAULT_SETTINGS (sync: the settings as stored, saved or not)
getSettings(sync) == IF sync.saved THEN sync ELSE DEFAULT_SETTINGS

\* content.js:1243-1255  applySettingsToUi: the minimum score the popup shows
\* for the answer to get-settings, as a percentage
PopupMinScore(settings) == (settings.minScore + 5) \div 10

\* the image modes storage may hold: the three of the popup's select and one
\* that no version of the popup offers
StoredImageModes == {"balanced", "boosted", "strict", "vivid"}

\* what chrome.storage.sync may hold: nothing, or what a popup saved
StoredSettings ==
    {STORAGE_DEFAULTS} \cup
    { [STORAGE_DEFAULTS EXCEPT !.saved = TRUE, !.minScore = minScore, !.imageMode = mode] :
        minScore \in {0, 250}, mode \in StoredImageModes }

\* the scores and image scores a scorer may give: the values on either side of
\* every threshold of the filters and the tiers
EvalScores == {0, 5, 10, 199, 200, 249, 250, 349, 350, 499, 500, 799, 800, 1000}
EvalImages ==
    {[has |-> FALSE, score |-> 0]} \cup
    {[has |-> TRUE, score |-> score] : score \in {150, 200, 420, 450, 620, 650, 750}}

\* titles and descriptions: with and without the query token "piano", with a
\* music marker, the token in the title or in the description
EvalTexts ==
    { <<"Piano lesson", "">>, <<"Cat video", "">>, <<"Cat video", "for #Piano fans">>,
      <<"Piano song lyrics", "">>, <<"Song lyrics", "learn piano">> }

EvalTokens == {<<>>, <<"piano">>}

\* the scored entries, and the node without one
EvalEntries ==
    {[hasEntry |-> FALSE, entry |-> NoEntry]} \cup
    { [hasEntry |-> TRUE,
       entry |-> [id |-> ResultId(0, 0), score |-> score, hasImage |-> image.has,
                  image_score |-> image.score, title |-> text[1], description |-> text[2]]] :
        score \in EvalScores, image \in EvalImages, text \in EvalTexts }

\* an item arrives with some settings stored and some query on the page
InitFilter ==
    /\ search_feedback = <<>>
    /\ appended = <<>>
    /\ logCalls = {}
    /\ logStarted = 0
    /\ trainPending = 0
    /\ trainRuns = 0
    /\ trainRead = <<>>
    /\ trainBody = NoRequest
    /\ trainSent = 0
    /\ lastChange = NoChange
    /\ clears = 0
    /\ now = 0
    /\ TabAt("off", "", <<>>)
    /\ scoring = Scores
    /\ \E sync \in StoredSettings, item \in EvalEntries, tokens \in EvalTokens :
          evaluated = [stage |-> "drawn", sync |-> sync, hasEntry |-> item.hasEntry,
                       entry |-> item.entry, tokens |-> tokens,
                       cfg |-> DEFAULT_CONFIG,
                       thresholds |-> computeImageThresholds(DEFAULT_CONFIG.imageMode),
                       background |-> DEFAULT_SETTINGS, popupMinScore |-> 0,
                       passes |-> FALSE, score |-> -1, index |-> 0, tier |-> 0]

\* content.js:179-196 loadSettings with 220-236 applySettings; background.js
\* 16-19 getSettings, and what the popup shows for its answer
evalSettings ==
    /\ evaluated.stage = "drawn"
    /\ \E cfg \in {applySettings(DEFAULT_CONFIG, evaluated.sync, ConfigKeys)} :
          evaluated' = [evaluated EXCEPT
                          !.stage = "settings",
                          !.cfg = cfg,
                          !.thresholds = computeImageThresholds(cfg.imageMode),
                          !.background = getSettings(evaluated.sync),
                          !.popupMinScore = PopupMinScore(getSettings(evaluated.sync))]
    /\ UNCHANGED <<storeVars, now, contentVars, collectorVars>>

\* content.js:379-396  the decorated item: passes and score
evalFilters ==
    /\ evaluated.stage = "settings"
    /\ evaluated' = [evaluated EXCEPT
                       !.stage = "filtered",
                       !.passes = evaluated.hasEntry /\
                                  passesFilters(evaluated.entry, evaluated.cfg,
                                                evaluated.thresholds, evaluated.tokens,
                                                getWrongBlacklist(<<>>)),
                       !.score = IF evaluated.hasEntry THEN evaluated.entry.score ELSE -1]
    /\ UNCHANGED <<storeVars, now, contentVars, collectorVars>>

\* content.js:773-774  the tier of the decorated item
evalTier ==
    /\ evaluated.stage = "filtered"
    /\ evaluated' = [evaluated EXCEPT
                       !.stage = "tiered",
                       !.tier = tierFor(evaluated, evaluated.thresholds)]
    /\ UNCHANGED <<storeVars, now, contentVars, collectorVars>>

NextFilter == evalSettings \/ evalFilters \/ evalTier

SpecFilter == InitFilter /\ [][NextFilter]_vars

-----------------------------------------------------------------------------
(* C1: a blacklisted title never passes the filters *)

\* scored entries of every kind: low and high score, without and with a
\* strong image score, with and without a query token in the title
FilterEntries ==
    {[id |-> "result-0-0", score |-> score, hasImage |-> image.has,
      image_score |-> image.score, title |-> title, description |-> ""] :
        score \in {300, 900},
        image \in {[has |-> FALSE, score |-> 0], [has |-> TRUE, score |-> 700]},
        title \in Range(ResultTitles)}

\* C1 (as claimed): whenever the blacklist the content script holds has, under
\* the key of the query being ranked, the normalized title of an entry,
\* passesFilters is false for that entry, whatever its scores.
C1_BlacklistedNeverPasses ==
    LET queryKey == toLowerCase[lastRequest.query]
    IN  queryKey \in DOMAIN wrongBlacklist =>
            \A entry \in FilterEntries :
                normalizeTitle(entry.title) \in wrongBlacklist[queryKey] =>
                    ~passesFilters(entry, config, imageThresholds, lastQueryTokens,
                                   wrongBlacklist)

-----------------------------------------------------------------------------
(* C2: a title judged wrong is excluded from later requests of the query *)

\* C2 (as claimed): once a "wrong" click on title X, made on a page whose
\* query is y, has been written to the log and the content script has loaded
\* the blacklist again, every payload requestAnalysis builds for query y
\* afterwards is without items whose normalized title is normalize(X).
C2_WrongJudgmentExcluded ==
    \A j \in judged :
        (j.state = "loaded" /\ lastRequest.made /\ lastRequest.query = j.query)
            => j.title \notin lastRequest.titles

-----------------------------------------------------------------------------
(* C3: a result that arrives for an outdated fingerprint is not applied *)

\* C3 (as claimed): a semantic-results message changes the page (highlights,
\* order) only when its hash is the lastPayloadHash of the moment it arrives.
C3_StaleResultNotApplied ==
    (lastApplied.from = "message" /\ lastApplied.changed)
        => lastApplied.hash = lastApplied.current

-----------------------------------------------------------------------------
(* C9, C10: the result cache *)

\* C9: a cache lookup of requestAnalysis serves the cached result exactly when
\* there is an entry younger than 300000 ms, and in every other case (no
\* entry, or an entry of 300000 ms or more) sends a semantic-score message
\* instead.
C9_CacheServedOnlyWhenFresh ==
    lastLookup.made =>
        /\ lastLookup.served <=> (lastLookup.hadEntry /\ lastLookup.age < 300000)
        /\ lastLookup.sent <=> ~lastLookup.served

\* C9 witness: a lookup found an entry of exactly the expiry age and sent a
\* request instead of serving it
C9_Witness ==
    /\ lastLookup.made
    /\ lastLookup.hadEntry
    /\ lastLookup.age >= CACHE_EXPIRY_MS
    /\ lastLookup.sent
    /\ ~lastLookup.served

\* C10: when a result was received for a fingerprint and a later lookup of
\* the same fingerprint happens less than 300000 ms after it, the lookup
\* serves exactly the data received last and sends no semantic-score message.
C10_PutThenGetWithinTtl ==
    (lastLookup.made /\ lastLookup.hadStored /\ lastLookup.storedAge < CACHE_EXPIRY_MS)
        => /\ lastLookup.served
           /\ lastLookup.data = lastLookup.storedData
           /\ ~lastLookup.sent

\* C10 witness: a result with two ranked entries was served from the cache
\* 150000 ms after it was received
C10_Witness ==
    /\ lastLookup.made
    /\ lastLookup.hadStored
    /\ lastLookup.storedAge > 0
    /\ lastLookup.storedAge < CACHE_EXPIRY_MS
    /\ lastLookup.served
    /\ Len(lastLookup.data.ranked) = 2
    /\ lastLookup.data = lastLookup.storedData

-----------------------------------------------------------------------------
(* C11: a settings change invalidates the cache *)

\* C11 (as claimed): a cache lookup made after a relevant setting
\* (maxItems, minScore, enableReorder, showBadges, imageMode) changed never
\* serves a result that was cached before the change.
C11_SettingsChangeInvalidatesCache ==
    (lastLookup.made /\ lastLookup.served) => ~lastLookup.preChange

-----------------------------------------------------------------------------
(* C12: the order reorderNodes produces *)

\* the item of an application that belongs to the node with the id
ItemOf(items, id) == items[CHOOSE i \in 1..Len(items) : items[i].id = id]

\* C12: after a semantic-results message was applied with reordering enabled,
\* the result nodes are shown in the order of the items sorted by tier
\* (highest first), then score (highest first), then original index (lowest
\* first): of any two shown nodes the earlier one has the higher tier, or the
\* same tier and the higher score, or the same tier and score and the lower
\* original index (so items equal in tier and score keep their order).
C12_ReorderIsSortedByTierScoreIndex ==
    (/\ lastApplied.from = "message"
     /\ lastApplied.context.cfg.enableReorder
     /\ Len(lastApplied.items) > 0) =>
        LET items == lastApplied.items
            shown == lastApplied.shown
        IN  /\ Len(shown) = Len(items)
            /\ {shown[k] : k \in 1..Len(shown)} = {items[i].id : i \in 1..Len(items)}
            /\ \A k, m \in 1..Len(shown) :
                   k < m =>
                      LET a == ItemOf(items, shown[k])
                          b == ItemOf(items, shown[m])
                      IN  \/ a.tier > b.tier
                          \/ a.tier = b.tier /\ a.score > b.score
                          \/ a.tier = b.tier /\ a.score = b.score /\ a.index < b.index

\* C12 witness: three items were reordered, two of them equal in tier and score
C12_Witness ==
    /\ lastApplied.from = "message"
    /\ Len(lastApplied.items) = 3
    /\ lastApplied.shown # [i \in 1..3 |-> lastApplied.items[i].id]
    /\ \E i, j \in 1..3 :
          /\ i < j
          /\ lastApplied.items[i].tier = lastApplied.items[j].tier
          /\ lastApplied.items[i].score = lastApplied.items[j].score

-----------------------------------------------------------------------------
(* C13: an item with image score 0.7 against one without image score *)

\* the place of the node with the id among the shown result nodes
PlaceOf(shown, id) == CHOOSE k \in 1..Len(shown) : shown[k] = id

\* the pairs the scenario is about, in an application in balanced image mode:
\* two passing items of score 0.5, the first with image score 0.7, the second
\* without image score
ImagePairs ==
    IF lastApplied.from = "message" /\ lastApplied.context.cfg.imageMode = "balanced"
          /\ lastApplied.context.cfg.enableReorder
    THEN {pair \in (1..Len(lastApplied.items)) \X (1..Len(lastApplied.items)) :
             LET a == lastApplied.items[pair[1]]
                 b == lastApplied.items[pair[2]]
             IN  /\ a.passes /\ b.passes
                 /\ a.score = 500 /\ b.score = 500
                 /\ a.hasImage /\ a.image_score = 700
                 /\ ~b.hasImage}
    ELSE {}

\* C13 (as claimed): the item with image score 0.7 is in tier 6, the one
\* without image score in tier 3 or 4, and the first is shown before the second.
C13_ImageItemTierSix ==
    \A pair \in ImagePairs :
        LET a == lastApplied.items[pair[1]]
            b == lastApplied.items[pair[2]]
        IN  /\ a.tier = 6
            /\ b.tier \in {3, 4}
            /\ PlaceOf(lastApplied.shown, a.id) < PlaceOf(lastApplied.shown, b.id)

\* C13 (amended): the item with image score 0.7 is in tier 7 (0.7 is at or
\* above the balanced top threshold 0.65), the one without image score in
\* tier 3 or 4, and the first is shown before the second.
C13_ImageItemTierSeven ==
    \A pair \in ImagePairs :
        LET a == lastApplied.items[pair[1]]
            b == lastApplied.items[pair[2]]
        IN  /\ a.tier = 7
            /\ b.tier \in {3, 4}
            /\ PlaceOf(lastApplied.shown, a.id) < PlaceOf(lastApplied.shown, b.id)

\* C13 witness: such a pair was ranked, and the item with the image score
\* came after the other one before the reorder
C13_Witness ==
    \E pair \in ImagePairs :
        /\ lastApplied.items[pair[1]].index > lastApplied.items[pair[2]].index
        /\ lastApplied.items[pair[1]].tier = 7

-----------------------------------------------------------------------------
(* C14: ranking the same scored set twice *)

\* C14: when a semantic-results message with the same scored entries as the
\* one applied before it is applied to the page as that application left it,
\* with the same settings, query tokens and blacklist, the order signature
\* (and the order shown) is the same as after the first application.
C14_SecondApplicationSameSignature ==
    (lastApplied.from = "message" /\ lastApplied.repeat) =>
        /\ lastApplied.signature = lastApplied.prevSignature
        /\ lastApplied.shown = lastApplied.prevShown

\* C14 witness: the same three scored entries were applied a second time, to
\* a page whose first node is not the one the page had put first
C14_Witness ==
    /\ lastApplied.from = "message"
    /\ lastApplied.repeat
    /\ Len(lastApplied.shown) = 3
    /\ lastApplied.shown[1] # ResultId(0, 0)
    /\ lastApplied.signature = lastApplied.shown

-----------------------------------------------------------------------------
(* C15: a failed ranking request clears the highlights *)

\* C15 (as claimed): once a semantic-error message (the backend answered with
\* a non-OK status, or the fetch threw) was handled by the content script, no
\* result node of the page is highlighted.
C15_ErrorClearsHighlights ==
    lastApplied.from = "error" => ~lastApplied.highlights

-----------------------------------------------------------------------------
(* C16: a ranking request uses the blacklist of the current feedback store *)

\* C16 (as claimed): every ranking request requestAnalysis dispatches is
\* built with the blacklist the feedback store has at that moment: after an
\* append or a clear of search_feedback, no request is filtered with the
\* blacklist from before the mutation.
C16_RequestUsesCurrentBlacklist ==
    lastLookup.made => lastLookup.blacklistCurrent

-----------------------------------------------------------------------------
(* C17: the brand/fruit stage for queries with the token "apple" *)

\* the text the filter chain searches for keywords (content.js:680-683)
CombinedText(item) ==
    Only({ title \o " " \o description
               \o " " \o JoinSpace[extractHashtags(title \o " " \o description)]
           : <<title, description>> \in
                 {<<toLowerCase[item.title], toLowerCase[item.description]>>} })

HasBrandOnly(item) ==
    \E combined \in {CombinedText(item)} :
        /\ \E kw \in APPLE_BRAND_KEYWORDS : includes[combined, kw]
        /\ ~\E kw \in APPLE_FRUIT_KEYWORDS : includes[combined, kw]

HasFruit(item) ==
    \E kw \in APPLE_FRUIT_KEYWORDS : includes[CombinedText(item), kw]

\* the title and description of an item, and the texts of the page's results
TextOf(item) == [title |-> item.title, description |-> item.description]
PageTexts == {TextOf(OrderResults[i]) : i \in 1..Len(OrderResults)}

\* the page's results with a brand keyword and no fruit keyword, and those
\* with a fruit keyword
BrandOnlyTexts == {text \in PageTexts : HasBrandOnly(text)}
FruitTexts == {text \in PageTexts : HasFruit(text)}

\* an application of a ranking with the brand filter on, for an "apple" query
AppleRanking ==
    /\ lastApplied.from = "message"
    /\ lastApplied.context.cfg.enableBrandFilter
    /\ "apple" \in Range(lastApplied.context.tokens)
    /\ \A i \in 1..Len(lastApplied.items) : TextOf(lastApplied.items[i]) \in PageTexts

ScoredItems == {i \in 1..Len(lastApplied.items) : lastApplied.items[i].hasEntry}

BrandOnlyItems == {i \in ScoredItems : TextOf(lastApplied.items[i]) \in BrandOnlyTexts}

\* the two-result page of the scenario, the pie recipe scored at or above the
\* minimum score
PieScenario ==
    /\ AppleRanking
    /\ lastApplied.context.tokens = <<"apple", "pie">>
    /\ Len(lastApplied.items) = 2
    /\ ScoredItems = {1, 2}
    /\ lastApplied.items[1].title = "Apple iPhone 16 Review"
    /\ lastApplied.items[2].title = "Best Apple Pie Recipe"
    /\ lastApplied.items[2].score >= lastApplied.context.cfg.minScore

\* what the claim and its amendment share: a scored item with a brand keyword
\* and no fruit keyword is rejected and in tier 1 whatever its score; an item
\* with a fruit keyword that is rejected is rejected by the chain with the
\* stage switched off as well; in the scenario the iPhone item is rejected,
\* the pie item passes
BrandStageDecides ==
    AppleRanking =>
        /\ \A i \in BrandOnlyItems :
              ~lastApplied.items[i].passes /\ lastApplied.items[i].tier = 1
        /\ \A i \in ScoredItems :
              LET item == lastApplied.items[i]
                  context == lastApplied.context
              IN  (TextOf(item) \in FruitTexts /\ ~item.passes) =>
                      ~passesFilters(item,
                          [context.cfg EXCEPT !.enableBrandFilter = FALSE],
                          context.thresholds, context.tokens, context.blacklist)
        /\ PieScenario =>
              /\ ~lastApplied.items[1].passes /\ lastApplied.items[1].tier = 1
              /\ lastApplied.items[2].passes

-----------------------------------------------------------------------------
(* C18: the scores used for filtering and ordering are within [0, 1] *)

\* C18 (as claimed): every score the content script filters, buckets and
\* sorts by is within [0, 1] (0..1000 thousandths): a score of the scorer's
\* response outside that range is clamped before it is used.
C18_UsedScoresWithinUnitRange ==
    lastApplied.from = "message" =>
        \A i \in 1..Len(lastApplied.items) :
            lastApplied.items[i].hasEntry =>
                /\ lastApplied.items[i].score >= 0
                /\ lastApplied.items[i].score <= 1000

-----------------------------------------------------------------------------
(* C19: a ranking attempt without a query or without candidates is a no-op *)

\* a step in which requestAnalysis is called: at the end of init, by the
\* MutationObserver, by handleStorageChanges after a relevant setting changed
CallsRequestAnalysis == init_loadBlacklist \/ ObserverCallback \/ saveSettings

\* C19: when the page has no query or no result node, a call of
\* requestAnalysis leaves lastOrderSignature, lastQueryTokens and the result
\* cache as they are, leaves lastPayloadHash as its caller left it
\* (handleStorageChanges has reset it before the call), and sends nothing to
\* the background; and when handleSemanticRequest takes a semantic-score
\* message without a query or without items, nothing is fetched and nothing is
\* sent to the tab.
C19_NoCandidatesNoOp ==
    [][/\ ((pageQuery = "" \/ Len(container) = 0) /\ CallsRequestAnalysis) =>
             /\ UNCHANGED <<lastOrderSignature, lastQueryTokens, resultCache, toBackground>>
             /\ \/ lastPayloadHash' = lastPayloadHash
                \/ saveSettings /\ lastPayloadHash' = NoHash
       /\ \A message \in toBackground \ toBackground' :
             (message.payload.query = "" \/ Len(message.payload.items) = 0) =>
                 UNCHANGED toTab]_vars

\* C19 witness: a ranking was applied, then the page lost its query or its
\* results and the observer's requestAnalysis ran on it (the fingerprint of
\* the ranked page is still in lastPayloadHash), and the background has
\* handled a semantic-score message without query or items
C19_Witness ==
    /\ pageQuery = "" \/ Len(container) = 0
    /\ ~mutationPending
    /\ lastApplied.from = "message"
    /\ lastPayloadHash # NoHash
    /\ lastQueryTokens # <<>>
    /\ lastHandled.made
    /\ lastHandled.message.payload.query = "" \/ Len(lastHandled.message.payload.items) = 0
    /\ ~lastHandled.answered

-----------------------------------------------------------------------------
(* C20: a collection run leaves out what the user blocked *)

\* C20 (as claimed): the videos a collection run has collected include no
\* video that had the user's thumbs-down when the run was started, and no
\* video whose title contains a pattern of the blocklist the run was started
\* with.
C20_BlockedVideoNotCollected ==
    collectionRun.started =>
        \A k \in 1..Len(collectionState.collectedVideos) :
            /\ collectionState.collectedVideos[k].id \notin collectionRun.downBefore
            /\ \A pattern \in Range(collectionRun.blocklist) :
                  ~includes[collectionState.collectedVideos[k].title, pattern]

-----------------------------------------------------------------------------
(* C21: the negative tags of a collection run take part in matching *)

\* content.js:1132  the text of a video: title, description and metadata,
\* lower-cased (the page's videos have no description and no metadata)
VideoText(video) == toLowerCase[video.title \o " " \o " "]

\* C21 (as claimed): when a collection run was started with negative tags,
\* none of the videos it has collected has a text that contains one of them.
C21_NegativeTagNotCollected ==
    collectionRun.started =>
        \A k \in 1..Len(collectionState.collectedVideos) :
            \A i \in 1..Len(collectionRun.negativeTags) :
                ~includes[VideoText(collectionState.collectedVideos[k]),
                          toLowerCase[collectionRun.negativeTags[i]]]

-----------------------------------------------------------------------------
(* C22: the tier of an item *)

\* the item has an image score of at least the bound
ImageAtLeast(item, bound) == item.entry.hasImage /\ item.entry.image_score >= bound

\* the score bucket the tiers 2 to 5 name, for a score of at least 0.01
BucketOf(score) ==
    IF score >= 800 THEN 5 ELSE IF score >= 500 THEN 4 ELSE IF score >= 200 THEN 3 ELSE 2

\* C22: tierFor gives 0 to a node without a scored record and 1 to a scored
\* item that failed the filters; a passing item gets 7 when its image score is
\* at least thresholds.top, else 6 when it is at least thresholds.strong,
\* whatever its score, and else 2, 3, 4 or 5 as its score is at least 0.01,
\* 0.2, 0.5 or 0.8; and among passing items without such an image score the
\* tier of a lower score is never higher.
C22_TierFor ==
    evaluated.stage = "tiered" =>
        /\ ~evaluated.hasEntry => evaluated.tier = 0
        /\ evaluated.hasEntry /\ ~evaluated.passes => evaluated.tier = 1
        /\ evaluated.hasEntry /\ evaluated.passes =>
              /\ ImageAtLeast(evaluated, evaluated.thresholds.top) => evaluated.tier = 7
              /\ /\ ImageAtLeast(evaluated, evaluated.thresholds.strong)
                 /\ ~ImageAtLeast(evaluated, evaluated.thresholds.top)
                 => evaluated.tier = 6
              /\ ~ImageAtLeast(evaluated, evaluated.thresholds.strong) =>
                    /\ evaluated.score >= 10 => evaluated.tier = BucketOf(evaluated.score)
                    /\ \A lower \in EvalScores :
                          lower <= evaluated.score =>
                              tierFor([evaluated EXCEPT !.score = lower],
                                      evaluated.thresholds) <= evaluated.tier

\* C22 witness: a passing item of score 0.2 whose image score of 0.65 reaches
\* the top threshold of the balanced mode (its score bucket would be 3)
C22_Witness ==
    /\ evaluated.stage = "tiered"
    /\ evaluated.hasEntry /\ evaluated.passes
    /\ evaluated.score = 200
    /\ evaluated.thresholds.top = 650
    /\ evaluated.entry.hasImage /\ evaluated.entry.image_score = 650
    /\ evaluated.tier = 7

-----------------------------------------------------------------------------
(* C23: a ranking with the order signature of the one before it *)

\* the application computed an order signature: reordering was enabled and
\* the ranking had entries and the page had items (content.js:759-763)
Ordered(applied) ==
    /\ applied.from \in {"message", "cache"}
    /\ applied.context.cfg.enableReorder
    /\ Len(applied.data.ranked) > 0
    /\ Len(applied.items) > 0

\* the ids of the container's children, in document order
Children(nodes) == [k \in 1..Len(nodes) |-> nodes[k].id]

\* a step that applies a ranking of the same order signature as the ranking
\* applied before it
AppliesSameSignature ==
    /\ lastApplied' # lastApplied
    /\ Ordered(lastApplied) /\ Ordered(lastApplied')
    /\ lastApplied'.signature = lastApplied.signature

\* C23 (as claimed): whenever a ranking is applied whose order signature is
\* that of the ranking applied before it, no node is moved and
\* lastOrderSignature is left as it was, also when the two rankings were
\* requested with different fingerprints.
C23_SameSignatureNoReorder ==
    [][AppliesSameSignature =>
          /\ Children(container') = Children(container)
          /\ lastOrderSignature' = lastOrderSignature]_vars

-----------------------------------------------------------------------------
(* C24: the blacklist is a view of the log *)

\* the log entry counts for the blacklist
CountsAsWrong(entry) == entry.feedback = "wrong" /\ entry.title # "" /\ entry.query # ""

-----------------------------------------------------------------------------
(* C25: the minimum score and the image floor *)

\* the item under evaluation has been through passesFilters
Filtered == evaluated.stage \in {"filtered", "tiered"} /\ evaluated.hasEntry

\* the item under evaluation is stopped by the minimum score
BelowMinScore == evaluated.entry.score < evaluated.cfg.minScore

\* the item under evaluation is stopped by the image floor
BelowImageFloor ==
    /\ evaluated.entry.hasImage
    /\ evaluated.entry.image_score < evaluated.thresholds.min
    /\ evaluated.entry.score < 350

\* a query token is found in the title, the description or the hashtags
TokenFound ==
    \E i \in 1..Len(evaluated.tokens) :
        \/ includes[toLowerCase[evaluated.entry.title], evaluated.tokens[i]]
        \/ includes[toLowerCase[evaluated.entry.description], evaluated.tokens[i]]

\* C25: passesFilters rejects an item whose score is below config.minScore,
\* and an item with an image score below thresholds.min and a score below
\* 0.35, whatever the later stages would say (the query tokens, the text); an
\* item without image score, or with a score of at least 0.35, that is neither
\* below the minimum score nor stopped by a later stage passes.
C25_MinScoreAndImageFloor ==
    Filtered =>
        /\ BelowMinScore => ~evaluated.passes
        /\ BelowImageFloor => ~evaluated.passes
        /\ /\ ~BelowMinScore
           /\ ~evaluated.entry.hasImage \/ evaluated.entry.score >= 350
           /\ evaluated.tokens = <<>> \/ TokenFound
           => evaluated.passes

\* C25 witness: an item of score 0.2 with image score 0.15 and the query token
\* in its title, under a minimum score of 0 and the balanced thresholds, is
\* rejected by the image floor alone
C25_Witness ==
    /\ Filtered
    /\ evaluated.cfg.minScore = 0
    /\ evaluated.thresholds.min = 200
    /\ evaluated.entry.score = 200
    /\ evaluated.entry.hasImage /\ evaluated.entry.image_score = 150
    /\ evaluated.tokens = <<"piano">>
    /\ evaluated.entry.title = "Piano lesson"
    /\ ~evaluated.passes

-----------------------------------------------------------------------------
(* C26: an item without any query token *)

\* there are query tokens and none is found in the item's text
NoTokenOverlap == evaluated.tokens # <<>> /\ ~TokenFound

\* C26: with query tokens, an item none of whose title, description and
\* hashtags contains a token passes only with an image score of at least
\* thresholds.strong, and then passes whenever the minimum score and the image
\* floor let it; without image score it is rejected.
C26_TokenPresence ==
    (Filtered /\ NoTokenOverlap) =>
        /\ evaluated.passes =>
              /\ evaluated.entry.hasImage
              /\ evaluated.entry.image_score >= evaluated.thresholds.strong
        /\ ~evaluated.entry.hasImage => ~evaluated.passes
        /\ /\ evaluated.entry.hasImage
           /\ evaluated.entry.image_score >= evaluated.thresholds.strong
           /\ ~BelowMinScore
           => evaluated.passes

\* C26 witness: "Cat video", scored 0.5 with image score 0.45, passes for the
\* query "piano" under the balanced thresholds (strong 0.45, top 0.65)
C26_Witness ==
    /\ Filtered
    /\ NoTokenOverlap
    /\ evaluated.entry.title = "Cat video"
    /\ evaluated.entry.score = 500
    /\ evaluated.thresholds.strong = 450
    /\ evaluated.entry.hasImage /\ evaluated.entry.image_score = 450
    /\ evaluated.passes

-----------------------------------------------------------------------------
(* C27: music markers *)

\* the item's title or description contains a music-content keyword
HasNegativeKeyword ==
    \E kw \in NEGATIVE_KEYWORDS :
        \/ includes[toLowerCase[evaluated.entry.title], kw]
        \/ includes[toLowerCase[evaluated.entry.description], kw]

\* no query token appears in the item's description
NoTokenInDescription ==
    \A i \in 1..Len(evaluated.tokens) :
        ~includes[toLowerCase[evaluated.entry.description], evaluated.tokens[i]]

\* C27 (as claimed): with the music filter enabled and a query with tokens, an
\* item whose text contains a music-content keyword ("lyrics", "music video",
\* "karaoke", ...) and whose description contains no query token does not
\* pass the filters.
C27_MusicMarkerRejected ==
    /\ Filtered
    /\ evaluated.cfg.enableMusicFilter
    /\ evaluated.tokens # <<>>
    /\ HasNegativeKeyword
    /\ NoTokenInDescription
    => ~evaluated.passes

-----------------------------------------------------------------------------
(* C28: the defaults *)

\* the documented thresholds of an image mode, an unrecognized one counting
\* as balanced
DocumentedThresholds(mode) ==
    IF mode = "strict" THEN [min |-> 350, strong |-> 550, top |-> 750]
    ELSE IF mode = "boosted" THEN [min |-> 180, strong |-> 400, top |-> 600]
    ELSE [min |-> 200, strong |-> 450, top |-> 650]

\* C28 (as claimed): once the settings are loaded, the thresholds in force
\* are the documented ones of the stored image mode (balanced for an
\* unrecognized mode) with min < strong < top; and with nothing stored the
\* minimum score in force in the content script is 0.25, and the settings the
\* background worker answers and the minimum score the popup shows are the
\* same defaults.
C28_DocumentedDefaults ==
    evaluated.stage \in {"settings", "filtered", "tiered"} =>
        /\ evaluated.thresholds = DocumentedThresholds(evaluated.sync.imageMode)
        /\ evaluated.thresholds.min < evaluated.thresholds.strong
        /\ evaluated.thresholds.strong < evaluated.thresholds.top
        /\ ~evaluated.sync.saved =>
              /\ evaluated.cfg.minScore = 250
              /\ \A key \in ConfigKeys : evaluated.background[key] = evaluated.cfg[key]
              /\ \A key \in ConfigKeys : DEFAULTS[key] = evaluated.cfg[key]
              /\ evaluated.popupMinScore = 25

-----------------------------------------------------------------------------
(* C29: passing items and rejected items *)

\* the item under evaluation has its tier, and passed the filters
TieredPassing == evaluated.stage = "tiered" /\ evaluated.hasEntry /\ evaluated.passes

\* a scored item of the given score that failed the filters, next on the page
FailingItem(score) ==
    [hasEntry |-> TRUE, passes |-> FALSE, score |-> score, index |-> evaluated.index + 1,
     entry |-> [evaluated.entry EXCEPT !.score = score]]

\* the comparator puts the item under evaluation before every scored item
\* that failed the filters, whatever that item's score
BeforeEveryFailing ==
    \A score \in EvalScores :
        /\ SortsBefore(evaluated, FailingItem(score), evaluated.thresholds)
        /\ ~SortsBefore(FailingItem(score), evaluated, evaluated.thresholds)

\* C29 (as claimed): whatever the minimum score and the score, an item that
\* passes the filters has a tier above 1 and is ordered before every scored
\* item that fails them.
C29_PassingAboveEveryFailing ==
    TieredPassing => (evaluated.tier > 1 /\ BeforeEveryFailing)

\* C29 (amended): an item that passes the filters with a score of at least
\* 0.01, or with an image score of at least thresholds.strong, has a tier
\* above 1 and is ordered before every scored item that fails them; so does
\* every passing item when the minimum score is at least 0.01.  A passing item
\* without such an image score and with a score below 0.01 is in tier 1.
C29_PassingAboveFailingFromOneHundredth ==
    TieredPassing =>
        /\ (evaluated.score >= 10 \/ ImageAtLeast(evaluated, evaluated.thresholds.strong))
              => (evaluated.tier > 1 /\ BeforeEveryFailing)
        /\ evaluated.cfg.minScore >= 10 => (evaluated.tier > 1 /\ BeforeEveryFailing)
        /\ (evaluated.score < 10 /\ ~ImageAtLeast(evaluated, evaluated.thresholds.strong))
              => evaluated.tier = 1

\* C29 witness: with the minimum score saved as 0, an item scored 0.01 without
\* image score passes and is in tier 2
C29_Witness ==
    /\ TieredPassing
    /\ evaluated.cfg.minScore = 0
    /\ evaluated.score = 10
    /\ ~evaluated.entry.hasImage
    /\ evaluated.tier = 2

-----------------------------------------------------------------------------
(* C30: the end of a collection run *)

\* C30 (as claimed): the popup takes one collection-complete message for one
\* run of the content script: once the run has stopped, the exchange of
\* stop-collection and collection-complete between popup and content script
\* ends.
C30_OneCompletionPerRun == collectionRun.started => collectionRun.completions <= 1

-----------------------------------------------------------------------------
(* C31: the scroll timers of the collection runs *)

\* C31: at most one auto-scroll timer is live at any time, and no timer
\* set by an earlier run scrolls or collects in a later one, whatever the
\* order of the start-collection and stop-collection messages
C31_OneLiveTimer == Cardinality(LiveTimers) <= 1 /\ ~scroll.staleTimerActed

-----------------------------------------------------------------------------
(* C32: a started collection run stops *)

\* the run has made more ticks than the safety limit allows
PastSafetyLimit == \E t \in 1..Len(scroll.timers) : scroll.timers[t].scrollAttempts > maxScrollAttempts + 1

\* a run is active only below the limits
ActiveBelowLimits == collectionState.active => scroll.noNewContentCount < NO_NEW_CONTENT_LIMIT /\ ~PastSafetyLimit

\* C32: every started collection run eventually stops, whether /match_tags
\* matches nothing or never answers: at maxVideos, after 8 ticks in a row with
\* the page height unchanged, or at the safety limit of the tick counter; it
\* is never active past one of these limits
C32_RunStops == [](ActiveBelowLimits) /\ (collectionState.active ~> ~collectionState.active)

\* a run that collected nothing and was stopped by the safety limit with a
\* request still unanswered
C32_Witness ==
    /\ scroll.starts = 1
    /\ ~collectionState.active
    /\ collectionState.collectedVideos = <<>>
    /\ scroll.requests # {}
    /\ scroll.timers[1].scrollAttempts = maxScrollAttempts + 2
    /\ scroll.noNewContentCount < NO_NEW_CONTENT_LIMIT
    /\ [type |-> "collection-error"] \notin toPopup

-----------------------------------------------------------------------------
(* C33: the number of collected videos *)

\* C33: a collection run never holds more than maxVideos collected videos,
\* in whatever order the answers of overlapping ticks are processed
C33_AtMostMaxVideos == Len(collectionState.collectedVideos) <= collectionState.maxVideos

\* two requests of one run were in flight together, the later one was answered
\* first and filled the run, and matches of the earlier one were left out
C33_Witness ==
    /\ scroll.starts = 1
    /\ scroll.capped
    /\ scroll.requests = {}
    /\ Cardinality(scroll.submitted) = Len(Videos)
    /\ Len(collectionState.collectedVideos) = collectionState.maxVideos
    /\ collectionState.collectedVideos[1] = Videos[Len(Videos)]

-----------------------------------------------------------------------------
(* C34: the answers of /match_tags and the run they belong to *)

\* C34: the matches of a request made in one collection run are not added to
\* the collected videos of a later run, nor to any run after it was stopped
C34_MatchesStayInTheirRun == ~scroll.foreign /\ ~scroll.late

-----------------------------------------------------------------------------
(* C35: the videos a run submits *)

\* C35: within one collection run each video id is sent to /match_tags at
\* most once, however many ticks and calls of collectVisibleVideos overlap
C35_SubmittedOnce == ~scroll.resubmitted

\* a run in which every video was submitted, by two requests in flight
\* together, and a third tick found nothing left to submit
C35_Witness ==
    /\ scroll.starts = 1
    /\ Cardinality(scroll.requests) = 2
    /\ scroll.timers[1].scrollAttempts = 3
    /\ {pair[2] : pair \in scroll.submitted} = {Videos[i].id : i \in 1..Len(Videos)}

-----------------------------------------------------------------------------
(* C36: the cycle of reorder, observer callback and new request *)

\* no semantic-score message is under way, no answer is awaited and no
\* observer callback is queued
Quiescent == toBackground = {} /\ toTab = {} /\ ~mutationPending

\* C36: with the page, the settings and the feedback left alone and a
\* scorer that answers the same for the same item, the cycle of reorder,
\* observer callback, new fingerprint and new result comes to rest: from some
\* point on no semantic-score message is sent and no node is moved
C36_CycleComesToRest == <>[]Quiescent /\ <>[][container' = container]_vars

\* a ranking moved nodes, the observer's callback sent the new fingerprint,
\* its result was applied and left every node where it was, and the tab is
\* at rest
C36_Witness ==
    /\ Quiescent
    /\ initPc = "ready"
    /\ lastApplied.from = "message"
    /\ lastApplied.hash = lastPayloadHash
    /\ lastApplied.signature # <<>>
    /\ lastApplied.prevSignature = lastApplied.signature
    /\ ~lastApplied.changed
    /\ [k \in 1..Len(container) |-> container[k].title] # OrderTitles
    /\ Len(container) = Len(OrderTitles)

-----------------------------------------------------------------------------
(* C37: the extension is disabled *)

\* this step applies a ranking that highlights or moves a node
RankingApplied ==
    /\ lastApplied' # lastApplied
    /\ lastApplied'.from \in {"message", "cache"}
    /\ lastApplied'.highlights \/ lastApplied'.changed

\* C37: while the stored setting enabled is false the content script applies
\* no ranking to the page, neither one the background sends nor one it
\* takes from its cache
C37_NothingAppliedWhileDisabled == [][~syncSettings.enabled /\ ~syncSettings'.enabled => ~RankingApplied]_vars

-----------------------------------------------------------------------------
(* C38: the config after settings loads and storage changes *)

\* C38: whatever the storage holds and however it changes, minScore is
\* within [0, 1], maxItems is a whole number within [5, 50], imageMode is one
\* of the three modes, every boolean option is a boolean, and imageThresholds
\* are the thresholds of config.imageMode
C38_ConfigWellFormed ==
    /\ config.minScore \in 0..1000
    /\ config.maxItems \in 5..50
    /\ config.imageMode \in {"balanced", "boosted", "strict"}
    /\ \A k \in ConfigKeys \ {"maxItems", "minScore", "imageMode"} : config[k] \in BOOLEAN
    /\ imageThresholds = computeImageThresholds(config.imageMode)

\* the storage held a string under every key when the tab opened, then
\* minScore became 60 and maxItems 49.5
C38_Witness ==
    /\ initPc = "ready"
    /\ syncSettings["imageMode"] = JsString("abc") /\ config.imageMode = "balanced"
    /\ syncSettings["showBadges"] = JsString("abc") /\ config.showBadges
    /\ syncSettings["minScore"] = JsNumber(60000) /\ config.minScore = 1000
    /\ syncSettings["maxItems"] = JsNumber(49500) /\ config.maxItems = 50

-----------------------------------------------------------------------------
(* C4: concurrent log-feedback handling loses no entry *)

\* C4 (as claimed): once no logSearchFeedback call is in flight (and the log
\* was not cleared), every entry a call wrote among the latest LOG_CAP is in
\* the stored log: concurrent calls lose no appended entry.
C4_NoAppendLost ==
    (logCalls = {} /\ clears = 0) =>
        \A i \in 1..Len(appended) :
            i > Len(appended) - LOG_CAP => appended[i] \in Range(search_feedback)

-----------------------------------------------------------------------------
(* C5: the log is the latest min(n, 500) appended entries *)

-----------------------------------------------------------------------------
(* C6, C7: when the trainer is triggered *)

\* C6 (as claimed): a store change triggers training if and only if it is an
\* append that changes the log's length to a positive multiple of 20.
C6_TrainedIffLengthBecomesMultiple ==
    lastChange.kind # "none" =>
        (lastChange.trained <=>
            /\ lastChange.kind = "append"
            /\ lastChange.newLen > 0
            /\ lastChange.newLen % TRAIN_EVERY = 0
            /\ lastChange.newLen # lastChange.oldLen)

\* C7 (as claimed): counting only helpful/wrong entries, the append of the
\* 19th such entry triggers no training and the append of the 20th does.
C7_QualifyingCountTriggers ==
    (lastChange.kind = "append" /\ lastChange.lastQualifies) =>
        /\ lastChange.newQualifying = 19 => ~lastChange.trained
        /\ lastChange.newQualifying = 20 => lastChange.trained

\* C7 (amended): counting every entry of the log (clicked ones included), an
\* append that leaves the log with 19 entries triggers no training and an
\* append that leaves it with 20 entries does.
C7_LengthTriggers ==
    lastChange.kind = "append" =>
        /\ lastChange.newLen = 19 => ~lastChange.trained
        /\ lastChange.newLen = 20 => lastChange.trained

\* C7 witness: the 20th entry was appended to a log that holds clicked entries,
\* and training was triggered
C7_Witness ==
    /\ lastChange.kind = "append"
    /\ lastChange.newLen = 20
    /\ lastChange.newQualifying < 20
    /\ lastChange.trained

-----------------------------------------------------------------------------
(* C8: what trainNegativeClassifier submits *)

\* the k-th entry of the log that is helpful or wrong
KthQualifying(feedbackLog, k) ==
    LET Q == Qualifying(feedbackLog)
    IN  feedbackLog[CHOOSE i \in Q : Cardinality({j \in Q : j < i}) = k - 1]

\* C8: a run of trainNegativeClassifier over a log with fewer than 10
\* helpful/wrong entries sends no request and changes nothing; over a log with
\* at least 10 it sends exactly the helpful/wrong entries, in order, helpful as
\* "up" and wrong as "down" (no clicked entry is sent).
C8_TrainingSubmission ==
    [][trainRuns' # trainRuns =>
        LET n == Cardinality(Qualifying(search_feedback))
        IN  IF n < 10
            THEN /\ trainSent' = trainSent
                 /\ ~trainBody'.sent
                 /\ UNCHANGED <<search_feedback, logCalls, lastChange>>
            ELSE /\ trainSent' = trainSent + 1
                 /\ trainBody'.sent
                 /\ Len(trainBody'.feedback_data) = n
                 /\ \A k \in 1..n :
                        LET entry == KthQualifying(search_feedback, k)
                            sent == trainBody'.feedback_data[k]
                        IN  /\ sent.title = entry.title
                            /\ entry.feedback = "helpful" => sent.feedback = "up"
                            /\ entry.feedback = "wrong" => sent.feedback = "down"
                 /\ UNCHANGED <<search_feedback, logCalls, lastChange>>
    ]_vars

\* C8 witness: a training request was sent from a log that holds clicked entries
C8_Witness ==
    /\ trainRuns > 0
    /\ trainBody.sent
    /\ \E i \in 1..Len(trainRead) : trainRead[i].feedback = "clicked"
    /\ Len(trainBody.feedback_data) = Cardinality(Qualifying(trainRead))

-----------------------------------------------------------------------------
Next == NextRank

Spec == Init /\ [][Next]_vars

====
